---------------------------- MODULE Spec2Model ----------------------------
(***************************************************************************)
(* Exam-paper similarity pipeline (src/data_cleaner.py,                    *)
(* src/paper_vectorizer.py, src/vectorizer.py, src/similarity_calculator.py)*)
(*                                                                         *)
(* A text is a sequence of lexical units.  A unit is a one-character       *)
(* string for ordinary characters and a longer string for a unit the code  *)
(* treats as a whole (an HTML tag, a numbering prefix, a score annotation).*)
(* sha256 is modelled as an injective digest: the digest of a text is the  *)
(* text itself.  Floating-point scores are modelled as exact rationals     *)
(* <<numerator, denominator>> with a positive denominator.                 *)
(***************************************************************************)
EXTENDS Integers, Sequences, FiniteSets, TLC

VARIABLES
    \* segment_text(text, max_length)            (src/data_cleaner.py:46-78)
    seg_pc, text, max_length, segmented,
    \* two calls of get_content_fingerprint       (src/data_cleaner.py:81-88)
    fp_pc, fp_question, fp_paper_id, fp_result,
    \* clean_paper_data(input_file, output_file, paper_id, deduplicate)
    \*                                           (src/data_cleaner.py:91-130)
    clean_pc,            \* "call", "loop", "save", "done"
    exam_data,           \* the records of input_file
    paper_id,            \* the paper_id argument, None when not given
    deduplicate,
    q_index,             \* the record the loop of line 103 is at
    seen_fingerprints,
    cleaned_questions,
    cleaned_file,        \* output_file: <<>> before line 129 writes it, then
                         \* <<what was written>>
    fingerprints,        \* history: the fingerprint line 116 gave each record
    kept,                \* history: the indices of the records line 125 kept
    \* vectorize_paper(input_file, output_file, model_type, model_dir)
    \*                                        (src/paper_vectorizer.py:12-62)
    vec_pc,              \* "call", "loop", "done", "raised"
    cleaned_input,       \* the records of input_file
    model_type,
    model_present,       \* the model directory exists and the model loads
    vec_index,           \* the record the loop of line 21 is at
    vectorized_questions,
    vectorized_file,     \* output_file: <<>> before lines 57-61 write it,
                         \* then <<what was written>>
    vec_error,           \* the exception that ended the call
    embedded,            \* history: per record, what each vectorize_text gave
    \* calculate_similarity(paper_a_file, paper_b_file, threshold,
    \*     type_sensitive, fusion_weight, deduplicate)
    \*                                   (src/similarity_calculator.py:30-128)
    sim_pc,              \* "call", "return"
    paper_a, paper_b,    \* what the two files hold
    threshold, type_sensitive, fusion_weight, sim_deduplicate,
    results,             \* the returned dict, <<>> before the return
    pair_index,          \* history: the (i, j) of each returned pair, in order
    \* a second call, calculate_similarity(paper_b_file, paper_a_file, ...)
    swap_pc,             \* "call", "return"
    swapped_results,     \* the dict it returned, <<>> before the return
    swapped_index,       \* history: the (i, j) of each pair it returned
    \* fused_similarity(v_a, v_b, w_cos)   (src/similarity_calculator.py:14-28)
    fs_pc,               \* "call", "return"
    fs_v_a, fs_v_b, fs_w_cos,
    fs_result,           \* the returned score, <<>> before the return
    \* ExamSimilarityApp.start_analysis          (src/gui_tkinter.py:357-429)
    run_pc,              \* "ready", "mkdtemp", "stage", "display", "except",
                         \* "finally", "done"
    runs,                \* how many times the button was clicked
    paper_a_entry, paper_b_entry, output_entry,
    existing_files,      \* the paths for which os.path.exists holds
    temp_dir,            \* the local temp_dir, None while it is not bound
    temp_dirs,           \* the temporary directories on the disk
    stage,               \* the index in Stages of the stage to run next
    stages,              \* history: the stages this run started
    progress,            \* progress_var
    output_written,      \* what this run did to the output file: "no", "partial", "complete"
    raised,              \* history: this run entered the except block
    cleanup,             \* history: "none", "removed" or "failed"
    abandoned,           \* history: the directories whose removal failed
    \* the stages of start_analysis on the files of the temporary directory
    \*                                        (src/gui_tkinter.py:376-405)
    pipe_pc,             \* per side: "clean", "vectorize", "done"
    pipe_raw,            \* per side: the records of the input file
    pipe_deduplicate,
    failing_texts,       \* the texts on which the provider raises
    pipe_files,          \* per file of temp_dir: <<>> or <<what was written>>
    pipe_results,        \* what calculate_similarity returned, <<>> before
    pipe_order,          \* history: the stages in the order they ran
    \* clean_html on its own
    html_pc,             \* "idle", "call" or "return"
    html_input,          \* raw_html
    html_output          \* the text returned

segVars == <<seg_pc, text, max_length, segmented>>
fpVars == <<fp_pc, fp_question, fp_paper_id, fp_result>>

cleanVars == <<clean_pc, exam_data, paper_id, deduplicate, q_index,
               seen_fingerprints, cleaned_questions, cleaned_file,
               fingerprints, kept>>

vecVars == <<vec_pc, cleaned_input, model_type, model_present, vec_index,
             vectorized_questions, vectorized_file, vec_error, embedded>>

simVars == <<sim_pc, paper_a, paper_b, threshold, type_sensitive,
             fusion_weight, sim_deduplicate, results, pair_index>>

swapVars == <<swap_pc, swapped_results, swapped_index>>

fusedVars == <<fs_pc, fs_v_a, fs_v_b, fs_w_cos, fs_result>>

runVars == <<run_pc, runs, paper_a_entry, paper_b_entry, output_entry,
             existing_files, temp_dir, temp_dirs, stage, stages, progress,
             output_written, raised, cleanup, abandoned>>

pipeVars == <<pipe_pc, pipe_raw, pipe_deduplicate,
              failing_texts, pipe_files, pipe_results, pipe_order>>

htmlVars == <<html_pc, html_input, html_output>>

vars == <<segVars, fpVars, cleanVars, vecVars, simVars, swapVars, fusedVars, runVars, pipeVars, htmlVars>>

---------------------------------------------------------------------------
(* Bounds of the model *)

\* longest text handed to segment_text
MaxTextLen == 5
\* largest max_length handed to segment_text
MaxSegLen == 4
\* most records in the input file of clean_paper_data
MaxCleanQuestions == 3
\* most records in the input file of vectorize_paper
MaxVecQuestions == 3
\* most questions in each paper handed to calculate_similarity
MaxSimQuestions == 2
\* most clicks on the start button
MaxRuns == 2
\* most records in each input paper of the two-paper pipeline
MaxPipeQuestions == 2
\* the longest raw text, in units, handed to clean_html on its own
MaxHtmlLen == 5

---------------------------------------------------------------------------
(* Strings *)

SP == " "
NL == "\n"

\* str.isspace() on one unit
IsSpace(c) == c \in {SP, NL}

RECURSIVE Concat(_)
\* "".join(ss)
Concat(ss) == IF ss = <<>> THEN <<>> ELSE Head(ss) \o Concat(Tail(ss))

RECURSIVE LStrip(_)
LStrip(s) == IF s # <<>> /\ IsSpace(Head(s)) THEN LStrip(Tail(s)) ELSE s

RECURSIVE RStrip(_)
RStrip(s) ==
    IF s # <<>> /\ IsSpace(s[Len(s)]) THEN RStrip(SubSeq(s, 1, Len(s) - 1)) ELSE s

\* str.strip()
Strip(s) == RStrip(LStrip(s))

RECURSIVE SplitOn(_, _, _)
\* str.split(sep) for a one-unit separator: cur is the piece being read
SplitOn(s, sep, cur) ==
    IF s = <<>> THEN <<cur>>
    ELSE IF Head(s) = sep THEN <<cur>> \o SplitOn(Tail(s), sep, <<>>)
    ELSE SplitOn(Tail(s), sep, Append(cur, Head(s)))

RECURSIVE SplitWords(_, _)
\* str.split(): the maximal runs of non-whitespace units
SplitWords(s, cur) ==
    IF s = <<>> THEN (IF cur = <<>> THEN <<>> ELSE <<cur>>)
    ELSE IF IsSpace(Head(s))
         THEN (IF cur = <<>> THEN <<>> ELSE <<cur>>) \o SplitWords(Tail(s), <<>>)
         ELSE SplitWords(Tail(s), Append(cur, Head(s)))

RECURSIVE JoinSpace(_)
\* " ".join(ws)
JoinSpace(ws) ==
    IF ws = <<>> THEN <<>>
    ELSE IF Len(ws) = 1 THEN ws[1]
    ELSE ws[1] \o <<SP>> \o JoinSpace(Tail(ws))

\* all sequences over S of length at most n
SeqsUpTo(S, n) == UNION {[1..k -> S] : k \in 0..n}

---------------------------------------------------------------------------
(* segment_text                                  src/data_cleaner.py:46-78 *)

\* a sentence-terminal mark of line 57 (one of the four full-width marks),
\* written in ASCII
PUNCT == "."

IsPunct(c) == c = PUNCT

\* line 47: [p.strip() for p in text.split('\n') if p.strip()]
Paragraphs(t) ==
    LET lines == SplitOn(t, NL, <<>>)
        stripped == [i \in 1..Len(lines) |-> Strip(lines[i])]
    IN SelectSeq(stripped, LAMBDA p : p # <<>>)

RECURSIVE PunctScanNoFlush(_, _, _)
\* PunctScan without the flush of lines 60-61
PunctScanNoFlush(para, cur, maxlen) ==
    IF para = <<>>
    THEN <<>>
    ELSE LET cur2 == Append(cur, Head(para))
         IN IF IsPunct(Head(para)) /\ 10 * Len(cur2) >= 3 * maxlen
            THEN <<Strip(cur2)>> \o PunctScanNoFlush(Tail(para), <<>>, maxlen)
            ELSE PunctScanNoFlush(Tail(para), cur2, maxlen)

RECURSIVE PunctScan(_, _, _)
\* lines 53-61: cut after a punctuation mark once the accumulation is at
\* least 0.3 * max_length long; flush what is left when it is not empty
PunctScan(para, cur, maxlen) ==
    IF para = <<>>
    THEN (IF cur # <<>> THEN <<Strip(cur)>> ELSE <<>>)
    ELSE LET cur2 == Append(cur, Head(para))
         IN IF IsPunct(Head(para)) /\ 10 * Len(cur2) >= 3 * maxlen
            THEN <<Strip(cur2)>> \o PunctScan(Tail(para), <<>>, maxlen)
            ELSE PunctScan(Tail(para), cur2, maxlen)

\* the flush test of line 70 without the separator counted by line 75
PackFlushesLate(current_length, word, maxlen, current_fragment) ==
    current_length + Len(word) > maxlen + 1 /\ current_fragment # <<>>

\* the flush test of line 70
PackFlushes(current_length, word, maxlen, current_fragment) ==
    current_length + Len(word) + 1 > maxlen /\ current_fragment # <<>>

RECURSIVE PackWords(_, _, _, _)
\* lines 67-77: greedy packing of the words of one over-long segment
PackWords(words, current_fragment, current_length, maxlen) ==
    IF words = <<>>
    THEN (IF current_fragment # <<>> THEN <<JoinSpace(current_fragment)>> ELSE <<>>)
    ELSE LET word == Head(words)
         IN IF PackFlushes(current_length, word, maxlen, current_fragment)
            THEN <<JoinSpace(current_fragment)>>
                 \o PackWords(Tail(words), <<word>>, Len(word) + 1, maxlen)
            ELSE PackWords(Tail(words), Append(current_fragment, word),
                           current_length + Len(word) + 1, maxlen)

\* lines 62-77 for one punctuation segment
SegmentPiece(seg, maxlen) ==
    IF Len(seg) <= maxlen THEN <<seg>>
    ELSE PackWords(SplitWords(seg, <<>>), <<>>, 0, maxlen)

\* lines 49-77 for one paragraph
SegmentParagraph(para, maxlen) ==
    IF Len(para) <= maxlen THEN <<para>>
    ELSE LET ps == PunctScan(para, <<>>, maxlen)
         IN Concat([i \in 1..Len(ps) |-> SegmentPiece(ps[i], maxlen)])

segment_text(t, maxlen) ==
    LET paragraphs == Paragraphs(t)
    IN Concat([i \in 1..Len(paragraphs) |-> SegmentParagraph(paragraphs[i], maxlen)])

---------------------------------------------------------------------------
(* clean_html                                    src/data_cleaner.py:17-43 *)

\* the tags of the whitelist of lines 27-30 that the model uses
AllowedTags == {"<p>", "</p>", "<b>", "</b>"}
\* tags outside the whitelist: bleach.clean(strip=True) removes the tag and
\* keeps what it encloses
StrippedTags == {"<u>", "</u>"}

IsTag(c) == c \in AllowedTags \cup StrippedTags

\* a whitelisted tag that carries an attribute, in two units: the text up to
\* the opening quote of the value and the closing quote with the bracket;
\* the units between them are the attribute's value
ATTR_OPEN == "<p title=\""
ATTR_CLOSE == "\">"

\* a character of [\x00-\x1f\x7f-\x9f] that is not whitespace
CTL == "^A"

DOLLAR == "$"
LBRACKET == "\\["
RBRACKET == "\\]"

\* f'__MATH_{k}__' of line 23
Placeholders == <<"__MATH_0__", "__MATH_1__", "__MATH_2__", "__MATH_3__">>

IsPlaceholder(c) == \E k \in 1..Len(Placeholders) : Placeholders[k] = c

PlaceholderIndex(c) == (CHOOSE k \in 1..Len(Placeholders) : Placeholders[k] = c) - 1

\* the end of the shortest math span that starts at s[1] and closes with
\* `close`, 0 when there is none ('.' does not match a line break)
MathEnd(s, close) ==
    LET ends == {j \in 2..Len(s) :
                    /\ s[j] = close
                    /\ \A k \in 2..(j - 1) : s[k] # NL /\ s[k] # close}
    IN IF ends = {} THEN 0 ELSE CHOOSE j \in ends : TRUE

\* where the match of math_pattern at the head of s ends, 0 when none
MathMatch(s) ==
    IF s = <<>> THEN 0
    ELSE IF Head(s) = DOLLAR THEN MathEnd(s, DOLLAR)
    ELSE IF Head(s) = LBRACKET THEN MathEnd(s, RBRACKET)
    ELSE 0

RECURSIVE ProtectMath(_, _, _)
\* lines 18-25: math_pattern.sub(save_math, raw_html); the result is
\* [html |-> the protected text, blocks |-> math_blocks]
ProtectMath(s, out, blocks) ==
    IF s = <<>> THEN [html |-> out, blocks |-> blocks]
    ELSE LET j == MathMatch(s)
         IN IF j > 0
            THEN ProtectMath(SubSeq(s, j + 1, Len(s)),
                             Append(out, Placeholders[Len(blocks) + 1]),
                             Append(blocks, SubSeq(s, 1, j)))
            ELSE ProtectMath(Tail(s), Append(out, Head(s)), blocks)

\* where the tag that opens at s[1] with ATTR_OPEN closes, 0 when it does not
TagEnd(s) ==
    LET ends == {j \in 2..Len(s) :
                    /\ s[j] = ATTR_CLOSE
                    /\ \A k \in 2..(j - 1) : s[k] # ATTR_CLOSE}
    IN IF ends = {} THEN 0 ELSE CHOOSE j \in ends : TRUE

RECURSIVE StripMarkup(_)
\* lines 31-35: bleach.clean strips the tags outside the whitelist, and the
\* attribute reset (tag.attrs = {}) leaves the whitelisted tags bare: a tag
\* with an attribute comes out as the bare tag, its attribute value dropped
StripMarkup(s) ==
    IF s = <<>> THEN <<>>
    ELSE IF Head(s) = ATTR_OPEN /\ TagEnd(s) > 0
         THEN <<"<p>">> \o StripMarkup(SubSeq(s, TagEnd(s) + 1, Len(s)))
         ELSE IF Head(s) \in StrippedTags
              THEN StripMarkup(Tail(s))
              ELSE <<Head(s)>> \o StripMarkup(Tail(s))

RECURSIVE CollapseSpace(_)
\* re.sub(r'\s+', ' ', s)
CollapseSpace(s) ==
    IF s = <<>> THEN <<>>
    ELSE IF IsSpace(Head(s))
         THEN <<SP>> \o CollapseSpace(LStrip(s))
         ELSE <<Head(s)>> \o CollapseSpace(Tail(s))

\* line 37: re.sub(r'[\x00-\x1f\x7f-\x9f]', '', s)
DropControl(s) == SelectSeq(s, LAMBDA c : c # CTL)

RECURSIVE RestoreMath(_, _)
\* lines 39-43: re.sub(r'__MATH_(\d+)__', restore_math, s)
RestoreMath(s, blocks) ==
    IF s = <<>> THEN <<>>
    ELSE IF IsPlaceholder(Head(s))
         THEN (IF PlaceholderIndex(Head(s)) < Len(blocks)
               THEN blocks[PlaceholderIndex(Head(s)) + 1] ELSE <<>>)
              \o RestoreMath(Tail(s), blocks)
         ELSE <<Head(s)>> \o RestoreMath(Tail(s), blocks)

clean_html(raw_html) ==
    LET protected == ProtectMath(raw_html, <<>>, <<>>)
        clean_text == DropControl(CollapseSpace(StripMarkup(protected.html)))
    IN RestoreMath(Strip(clean_text), protected.blocks)

---------------------------------------------------------------------------
(* extract_core_content                                src/utils.py:16-50 *)

\* a leading numbering such as "1." (the pattern of line 36), as one unit
NUM == "1."
\* a score annotation such as "(5分)" (the pattern of line 42), as one unit
SCORE == "(5pt)"

RECURSIVE TextNodes(_, _)
\* the text nodes of the parsed markup: the runs between tags
TextNodes(s, cur) ==
    IF s = <<>> THEN <<cur>>
    ELSE IF IsTag(Head(s)) THEN <<cur>> \o TextNodes(Tail(s), <<>>)
    ELSE TextNodes(Tail(s), Append(cur, Head(s)))

\* line 32: soup.get_text(separator=' ', strip=True)
GetText(s) ==
    LET nodes == TextNodes(s, <<>>)
        stripped == [i \in 1..Len(nodes) |-> Strip(nodes[i])]
    IN JoinSpace(SelectSeq(stripped, LAMBDA n : n # <<>>))

\* lines 35-39: the numbering at the very start, and the whitespace after it
DropNumbering(s) == IF s # <<>> /\ Head(s) = NUM THEN LStrip(Tail(s)) ELSE s

\* line 42
DropScores(s) == SelectSeq(s, LAMBDA c : c # SCORE)

extract_core_content(t) ==
    IF t = <<>> THEN <<>>
    ELSE Strip(CollapseSpace(DropScores(DropNumbering(GetText(t)))))

---------------------------------------------------------------------------
(* Records read from JSON: a record is a function from its keys *)

\* dict.get(key, default)
Get(d, key, default) == IF key \in DOMAIN d THEN d[key] ELSE default

---------------------------------------------------------------------------
(* get_content_fingerprint                       src/data_cleaner.py:81-88 *)

\* hashlib.sha256(...).hexdigest(): an injective digest
Sha256(s) == s

\* the fingerprint of the raw text in place of its core content
FingerprintOfRawText(question, pid) ==
    Sha256(pid \o <<"::">> \o Strip(Get(question, "text", <<>>)))

get_content_fingerprint(question, pid) ==
    LET core_text == extract_core_content(Get(question, "text", <<>>))
        content_with_id == pid \o <<"::">> \o Strip(core_text)
    IN Sha256(content_with_id)

---------------------------------------------------------------------------
(* Inputs of the cleaning stage *)

\* raw rich-text bodies: plain, numbered, scored, marked up, with math,
\* with a control character, blank
RawTexts ==
    { <<"a">>,
      <<NUM, SP, "a">>,
      <<"<p>", "a", "</p>">>,
      <<"a", SP, SCORE>>,
      <<"<u>", "a", SP, SP, "b", "</u>">>,
      <<"a", SP, "b">>,
      <<"b", CTL>>,
      <<DOLLAR, "a", DOLLAR, "b">>,
      <<"::", "a">>,
      <<SP>> }

\* paper identifiers: the two of start_analysis, and one that ends with the
\* separator of line 87
PaperIds == { <<"paper_a">>, <<"paper_b">>, <<"paper_a", "::">> }

---------------------------------------------------------------------------
(* Two calls of get_content_fingerprint *)

FpInit ==
    /\ fp_pc = "call"
    /\ fp_question \in [1..2 -> {[text |-> clean_html(r)] : r \in RawTexts}]
    /\ fp_paper_id \in [1..2 -> PaperIds]
    /\ fp_result = <<>>

FpIdle ==
    /\ fp_pc = "idle"
    /\ fp_question = <<>>
    /\ fp_paper_id = <<>>
    /\ fp_result = <<>>

Fingerprint ==
    /\ fp_pc = "call"
    /\ fp_result' = [k \in 1..2 |->
                        get_content_fingerprint(fp_question[k], fp_paper_id[k])]
    /\ fp_pc' = "return"
    /\ UNCHANGED <<fp_question, fp_paper_id>>

\* the core content of a question, as get_content_fingerprint reads it
CoreOf(question) == Strip(extract_core_content(Get(question, "text", <<>>)))

\* C3: the fingerprint is a function of (paper_id, core content): equal
\* paper_id and equal core content give equal fingerprints, and different
\* paper_ids with equal core content give different fingerprints.
C3_FingerprintFunction ==
    fp_pc = "return" =>
        LET sameCore == CoreOf(fp_question[1]) = CoreOf(fp_question[2])
        IN /\ (sameCore /\ fp_paper_id[1] = fp_paper_id[2])
                  => fp_result[1] = fp_result[2]
           /\ (sameCore /\ fp_paper_id[1] # fp_paper_id[2])
                  => fp_result[1] # fp_result[2]

\* two questions whose texts differ and whose core content is the same were
\* fingerprinted under the same paper_id
C3_Witness ==
    /\ fp_pc = "return"
    /\ fp_question[1].text # fp_question[2].text
    /\ CoreOf(fp_question[1]) = CoreOf(fp_question[2])
    /\ CoreOf(fp_question[1]) # <<>>
    /\ fp_paper_id[1] = fp_paper_id[2]
    /\ fp_result[1] = fp_result[2]

---------------------------------------------------------------------------
(* The segmenter as a machine: one call of segment_text *)

SegChars == {"a", "b", SP, NL, PUNCT}

SegInit ==
    /\ seg_pc = "call"
    /\ text \in SeqsUpTo(SegChars, MaxTextLen)
    /\ max_length \in 1..MaxSegLen
    /\ segmented = <<>>

SegIdle ==
    /\ seg_pc = "idle"
    /\ text = <<>>
    /\ max_length = 1
    /\ segmented = <<>>

SegmentText ==
    /\ seg_pc = "call"
    /\ segmented' = segment_text(text, max_length)
    /\ seg_pc' = "return"
    /\ UNCHANGED <<text, max_length>>

---------------------------------------------------------------------------
(* Claims about segment_text *)

\* the non-whitespace units of s, in order
NonSpace(s) == SelectSeq(s, LAMBDA c : ~IsSpace(c))

HasSpace(s) == \E i \in 1..Len(s) : IsSpace(s[i])

\* C4: the non-whitespace characters of the segments, concatenated in
\* order, are exactly the non-whitespace characters of the input text:
\* nothing is dropped, duplicated or reordered.
C4_SegmentsCoverText ==
    seg_pc = "return" => NonSpace(Concat(segmented)) = NonSpace(text)

\* a one-paragraph text longer than max_length was cut into several
\* segments, the last of them the flushed remainder after a punctuation cut
C4_Witness ==
    /\ seg_pc = "return"
    /\ Len(text) > max_length
    /\ \A i \in 1..Len(text) : text[i] # NL
    /\ \E i \in 1..(Len(text) - 1) : IsPunct(text[i]) /\ ~IsSpace(text[i + 1])
    /\ HasSpace(text)
    /\ ~IsPunct(text[Len(text)]) /\ ~IsSpace(text[Len(text)])
    /\ Len(segmented) >= 3

\* C5: a segment is at most max_length long unless it is one single
\* whitespace-delimited token that is itself longer than max_length.
C5_SegmentLengthBound ==
    seg_pc = "return" =>
        \A i \in 1..Len(segmented) :
            \/ Len(segmented[i]) <= max_length
            \/ ~HasSpace(segmented[i])

\* word packing ran on a one-paragraph text of several words: a token
\* longer than max_length was emitted alone, the other words apart from it
C5_Witness ==
    /\ seg_pc = "return"
    /\ \A i \in 1..Len(text) : text[i] # NL
    /\ Len(SplitWords(text, <<>>)) >= 2
    /\ \E i \in 1..Len(segmented) : Len(segmented[i]) > max_length
    /\ \E j \in 1..Len(segmented) : Len(segmented[j]) <= max_length

---------------------------------------------------------------------------
(* clean_paper_data                            src/data_cleaner.py:91-130 *)

\* None, where a string, a list or a vector is expected: the empty sequence
\* (no string the model tests for None is empty but where `not x` treats
\* both alike, and no vector has dimension 0)
None == <<>>

\* an exception name, where no exception was raised
NoError == "NoError"

\* the default of segment_text's max_length (line 46)
DefaultMaxLength == 500

\* the default of line 110 ("unknown")
UnknownType == "unknown"

\* os.path.basename(input_file)
InputBasename == <<"a.json">>

\* input records: the same core content written four ways (1, 2, 4 and a
\* repeat of 1), other content, and records that lack a key
RawQuestions ==
    { [id |-> "1", type |-> "MC", richTextContent |-> <<"a">>],
      [id |-> "2", type |-> "MC", richTextContent |-> <<NUM, SP, "a">>],
      [id |-> "3", type |-> "TF", richTextContent |-> <<"b", CTL>>],
      [id |-> "4", richTextContent |-> <<"<p>", "a", "</p>">>],
      [type |-> "MC", richTextContent |-> <<"<u>", "a", SP, SP, "b", "</u>">>],
      [id |-> "6", type |-> "TF"],
      [id |-> "7", type |-> "MC", richTextContent |-> <<SP>>] }

\* lines 104-113
CleanedQuestion(question) ==
    LET cleaned_content == clean_html(Get(question, "richTextContent", <<>>))
    IN [id |-> Get(question, "id", ""),
        type |-> Get(question, "type", UnknownType),
        text |-> cleaned_content,
        segments |-> segment_text(cleaned_content, DefaultMaxLength)]

\* lines 100-101: `if not paper_id` holds for None and for ""
EffectivePaperId(pid) == IF pid = None THEN InputBasename ELSE pid

\* line 120 with the flag left out
IsDuplicateAlways(dedup, fingerprint, seen) == fingerprint \in seen

\* line 120 never taken
IsDuplicateNever(dedup, fingerprint, seen) == FALSE

\* the test of line 120
IsDuplicate(dedup, fingerprint, seen) == dedup /\ fingerprint \in seen

CleanInit ==
    /\ clean_pc = "call"
    /\ exam_data \in SeqsUpTo(RawQuestions, MaxCleanQuestions)
    /\ paper_id \in {None, <<"paper_a">>}
    /\ deduplicate \in BOOLEAN
    /\ q_index = 0
    /\ seen_fingerprints = {}
    /\ cleaned_questions = <<>>
    /\ cleaned_file = <<>>
    /\ fingerprints = <<>>
    /\ kept = <<>>

CleanIdle ==
    /\ clean_pc = "idle"
    /\ exam_data = <<>>
    /\ paper_id = None
    /\ deduplicate = TRUE
    /\ q_index = 0
    /\ seen_fingerprints = {}
    /\ cleaned_questions = <<>>
    /\ cleaned_file = <<>>
    /\ fingerprints = <<>>
    /\ kept = <<>>

\* lines 92-101
CleanBegin ==
    /\ clean_pc = "call"
    /\ cleaned_questions' = <<>>
    /\ seen_fingerprints' = {}
    /\ paper_id' = EffectivePaperId(paper_id)
    /\ q_index' = 1
    /\ clean_pc' = "loop"
    /\ UNCHANGED <<exam_data, deduplicate, cleaned_file, fingerprints, kept>>

\* lines 103-122: one record that line 120 skips
CleanSkip ==
    /\ clean_pc = "loop"
    /\ q_index <= Len(exam_data)
    /\ LET cleaned_question == CleanedQuestion(exam_data[q_index])
           fingerprint == get_content_fingerprint(cleaned_question, paper_id)
       IN /\ IsDuplicate(deduplicate, fingerprint, seen_fingerprints)
          /\ fingerprints' = Append(fingerprints, fingerprint)
    /\ q_index' = q_index + 1
    /\ UNCHANGED <<clean_pc, exam_data, paper_id, deduplicate, seen_fingerprints,
                   cleaned_questions, cleaned_file, kept>>

\* lines 103-125: one record that is kept
CleanKeep ==
    /\ clean_pc = "loop"
    /\ q_index <= Len(exam_data)
    /\ LET cleaned_question == CleanedQuestion(exam_data[q_index])
           fingerprint == get_content_fingerprint(cleaned_question, paper_id)
       IN /\ ~IsDuplicate(deduplicate, fingerprint, seen_fingerprints)
          /\ fingerprints' = Append(fingerprints, fingerprint)
          /\ seen_fingerprints' = seen_fingerprints \cup {fingerprint}
          /\ cleaned_questions' =
                 Append(cleaned_questions,
                        [k \in DOMAIN cleaned_question \cup {"fingerprint"} |->
                            IF k = "fingerprint" THEN fingerprint
                            ELSE cleaned_question[k]])
    /\ kept' = Append(kept, q_index)
    /\ q_index' = q_index + 1
    /\ UNCHANGED <<clean_pc, exam_data, paper_id, deduplicate, cleaned_file>>

\* lines 127-130: the loop is over, the result is written
CleanSave ==
    /\ clean_pc = "loop"
    /\ q_index > Len(exam_data)
    /\ cleaned_file' = <<cleaned_questions>>
    /\ clean_pc' = "done"
    /\ UNCHANGED <<exam_data, paper_id, deduplicate, q_index, seen_fingerprints,
                   cleaned_questions, fingerprints, kept>>

---------------------------------------------------------------------------
(* Claims about clean_paper_data *)

\* what clean_paper_data wrote
CleanedOut == cleaned_file[1]

Range(f) == {f[i] : i \in DOMAIN f}

\* the output record of input record k, but for its fingerprint
OutputMatchesInput(out, k) ==
    /\ out.id = Get(exam_data[k], "id", "")
    /\ out.type = Get(exam_data[k], "type", UnknownType)
    /\ out.text = clean_html(Get(exam_data[k], "richTextContent", <<>>))
    /\ "fingerprint" \in DOMAIN out
    /\ out.fingerprint = fingerprints[k]

\* C1: with deduplicate = true the written output holds no two questions
\* with the same fingerprint, a record is dropped exactly when an earlier
\* record of the input has its fingerprint, and the retained questions are
\* in input order.
C1_DedupKeepsFirst ==
    (clean_pc = "done" /\ deduplicate) =>
        /\ \A i, j \in 1..Len(CleanedOut) :
               i # j => CleanedOut[i].fingerprint # CleanedOut[j].fingerprint
        /\ \A k \in 1..Len(exam_data) :
               (k \notin Range(kept)) <=>
                   (\E e \in 1..(k - 1) : fingerprints[e] = fingerprints[k])
        /\ Len(CleanedOut) = Len(kept)
        /\ \A m \in 1..Len(kept) :
               /\ m > 1 => kept[m - 1] < kept[m]
               /\ OutputMatchesInput(CleanedOut[m], kept[m])

\* a run with deduplicate = true dropped a record whose text differs from
\* the earlier record with its fingerprint, and kept a later one
C1_Witness ==
    /\ clean_pc = "done" /\ deduplicate
    /\ \E e, k, l \in 1..Len(exam_data) :
           /\ e < k /\ k < l
           /\ e \in Range(kept) /\ k \notin Range(kept) /\ l \in Range(kept)
           /\ fingerprints[e] = fingerprints[k]
           /\ exam_data[e] # exam_data[k]

\* C2: with deduplicate = false every input record is in the written output
\* exactly once and in input order, with a fingerprint attached, and
\* questions with the same core content carry the same fingerprint.
C2_NoDedupKeepsAll ==
    (clean_pc = "done" /\ ~deduplicate) =>
        /\ Len(CleanedOut) = Len(exam_data)
        /\ \A k \in 1..Len(exam_data) : OutputMatchesInput(CleanedOut[k], k)
        /\ \A i, j \in 1..Len(CleanedOut) :
               CoreOf(CleanedOut[i]) = CoreOf(CleanedOut[j])
                   => CleanedOut[i].fingerprint = CleanedOut[j].fingerprint

\* a run with deduplicate = false wrote two questions with different texts,
\* the same core content and the same fingerprint
C2_Witness ==
    /\ clean_pc = "done" /\ ~deduplicate
    /\ \E i, j \in 1..Len(CleanedOut) :
           /\ i < j
           /\ CleanedOut[i].text # CleanedOut[j].text
           /\ CoreOf(CleanedOut[i]) = CoreOf(CleanedOut[j])
           /\ CleanedOut[i].fingerprint = CleanedOut[j].fingerprint

---------------------------------------------------------------------------
(* Exact arithmetic: a rational is <<numerator, denominator>>, denominator > 0 *)

Abs(n) == IF n < 0 THEN -n ELSE n

RECURSIVE Gcd(_, _)
Gcd(a, b) == IF b = 0 THEN a ELSE Gcd(b, a % b)

\* lowest terms
RNorm(r) ==
    LET g == Gcd(Abs(r[1]), r[2]) IN <<r[1] \div g, r[2] \div g>>

RAdd(a, b) == RNorm(<<a[1] * b[2] + b[1] * a[2], a[2] * b[2]>>)
RMul(a, b) == RNorm(<<a[1] * b[1], a[2] * b[2]>>)
RDivInt(a, n) == RNorm(<<a[1], a[2] * n>>)
REq(a, b) == a[1] * b[2] = b[1] * a[2]
RLeq(a, b) == a[1] * b[2] <= b[1] * a[2]
RInt(n) == <<n, 1>>

---------------------------------------------------------------------------
(* TextVectorizer                                   src/vectorizer.py:19-135 *)

\* the keys of model_paths (lines 32-36)
ModelPaths == {"bert", "bge", "sentence-bert"}

\* self.vector_size (lines 57, 67): the output dimension of the model
vector_size == 2

\* np.zeros(n)
Zeros(n) == [i \in 1..n |-> RInt(0)]

\* how many units of s are c
RECURSIVE Count(_, _)
Count(s, c) ==
    IF s = <<>> THEN 0 ELSE (IF Head(s) = c THEN 1 ELSE 0) + Count(Tail(s), c)

\* self.model.encode([seg])[0] (line 97): a fixed vector per text, here the
\* number of "a" units and the number of other units
Encode(seg) == <<RInt(Count(seg, "a")), RInt(Len(seg) - Count(seg, "a"))>>

RECURSIVE SumCoord(_, _)
\* the sum of coordinate i over the vectors vs
SumCoord(vs, i) ==
    IF vs = <<>> THEN RInt(0) ELSE RAdd(Head(vs)[i], SumCoord(Tail(vs), i))

\* np.mean(vs, axis=0) for a non-empty list of vectors: sum, then divide
Mean(vs) == [i \in 1..Len(vs[1]) |-> RDivInt(SumCoord(vs, i), Len(vs))]

\* vectorize_text(t), lines 75-135: the results it can return.  The text
\* is blank (line 83-85), or its core content has no segment (lines 127-128),
\* or every segment is encoded (line 131), or an exception of lines 88-131
\* is caught (lines 133-135)
VectorizeTextResults(t) ==
    IF Strip(t) = <<>> THEN {Zeros(vector_size)}
    ELSE LET segs == segment_text(extract_core_content(t), DefaultMaxLength)
         IN IF segs = <<>> THEN {None}
            ELSE {Mean([i \in 1..Len(segs) |-> Encode(segs[i])]), None}

---------------------------------------------------------------------------
(* vectorize_paper                             src/paper_vectorizer.py:12-62 *)

\* a failed segment counted as a zero vector instead of left out
SuccessesZeroFilled(outcomes) ==
    [i \in 1..Len(outcomes) |->
        IF outcomes[i] = None THEN Zeros(vector_size) ELSE outcomes[i]]

\* lines 36-40: the embeddings that are not None
Successes(outcomes) == SelectSeq(outcomes, LAMBDA emb : emb # None)

\* lines 41-42 with a zero vector when no segment succeeded
SegmentsVectorZero(embeddings) ==
    IF embeddings # <<>> THEN Mean(embeddings) ELSE Zeros(vector_size)

\* lines 41-42: the vector of a question with segments
SegmentsVector(embeddings) ==
    IF embeddings # <<>> THEN Mean(embeddings) ELSE None

\* lines 45-50 without the substitution of line 50
FullTextVectorUnset(embedding) == embedding

\* lines 45-50: the vector of a question without segments
FullTextVector(embedding) ==
    IF embedding # None THEN embedding ELSE Zeros(vector_size)

\* cleaned records: one segment; two segments; no segment; no segments key
\* and a blank text; a segment without core content; no text
CleanedRecords ==
    { [id |-> "1", type |-> "MC", text |-> <<"a">>, segments |-> << <<"a">> >>,
       fingerprint |-> <<"paper_a", "::", "a">>],
      [id |-> "2", type |-> "TF", text |-> <<"a", SP, "b">>,
       segments |-> << <<"a">>, <<"b">> >>],
      [id |-> "3", type |-> "MC", text |-> <<"b">>, segments |-> <<>>],
      [id |-> "4", type |-> "MC", text |-> <<SP>>],
      [id |-> "5", type |-> "TF", text |-> <<NUM>>, segments |-> << <<NUM>> >>],
      [id |-> "6", type |-> "MC", segments |-> << <<"a">> >>] }

\* the keys lines 22-26 read with question[...]
RequiredKeys == {"text", "id", "type"}

VecInit ==
    /\ vec_pc = "call"
    /\ cleaned_input \in SeqsUpTo(CleanedRecords, MaxVecQuestions)
    /\ model_type \in {"sentence-bert", "gpt"}
    /\ model_present \in BOOLEAN
    /\ vec_index = 0
    /\ vectorized_questions = <<>>
    /\ vectorized_file = <<>>
    /\ vec_error = NoError
    /\ embedded = <<>>

VecIdle ==
    /\ vec_pc = "idle"
    /\ cleaned_input = <<>>
    /\ model_type = "sentence-bert"
    /\ model_present = TRUE
    /\ vec_index = 0
    /\ vectorized_questions = <<>>
    /\ vectorized_file = <<>>
    /\ vec_error = NoError
    /\ embedded = <<>>

\* lines 13-19: the file is read and the vectorizer constructed
VecBegin ==
    /\ vec_pc = "call"
    /\ model_type \in ModelPaths /\ model_present
    /\ vec_index' = 1
    /\ vectorized_questions' = <<>>
    /\ vec_pc' = "loop"
    /\ UNCHANGED <<cleaned_input, model_type, model_present, vectorized_file,
                   vec_error, embedded>>

\* line 17: TextVectorizer.__init__ raises (vectorizer.py:38-39, 44-46, 71-73)
VecBeginRaises ==
    /\ vec_pc = "call"
    /\ ~(model_type \in ModelPaths /\ model_present)
    /\ vec_error' = IF model_type \notin ModelPaths THEN "ValueError"
                    ELSE "FileNotFoundError"
    /\ vec_pc' = "raised"
    /\ UNCHANGED <<cleaned_input, model_type, model_present, vec_index,
                   vectorized_questions, vectorized_file, embedded>>

\* lines 24-32
QuestionData(question, vector) ==
    [id |-> question.id,
     type |-> question.type,
     score |-> Get(question, "score", 0),
     text |-> question.text,
     segments |-> Get(question, "segments", <<>>),
     fingerprint |-> Get(question, "fingerprint", <<>>),
     vector |-> vector]

\* lines 21-52: one record with segments
VecQuestionSegments ==
    /\ vec_pc = "loop"
    /\ vec_index <= Len(cleaned_input)
    /\ LET question == cleaned_input[vec_index]
           segments == Get(question, "segments", <<>>)
       IN /\ RequiredKeys \subseteq DOMAIN question
          /\ segments # <<>>
          /\ \E outcomes \in [1..Len(segments) ->
                                UNION {VectorizeTextResults(segments[i]) :
                                          i \in 1..Len(segments)}] :
                /\ \A i \in 1..Len(segments) :
                       outcomes[i] \in VectorizeTextResults(segments[i])
                /\ vectorized_questions' =
                       Append(vectorized_questions,
                              QuestionData(question,
                                           SegmentsVector(Successes(outcomes))))
                /\ embedded' = Append(embedded, outcomes)
    /\ vec_index' = vec_index + 1
    /\ UNCHANGED <<vec_pc, cleaned_input, model_type, model_present,
                   vectorized_file, vec_error>>

\* lines 21-52: one record without segments
VecQuestionFullText ==
    /\ vec_pc = "loop"
    /\ vec_index <= Len(cleaned_input)
    /\ LET question == cleaned_input[vec_index]
           segments == Get(question, "segments", <<>>)
       IN /\ RequiredKeys \subseteq DOMAIN question
          /\ segments = <<>>
          /\ \E embedding \in VectorizeTextResults(question.text) :
                /\ vectorized_questions' =
                       Append(vectorized_questions,
                              QuestionData(question, FullTextVector(embedding)))
                /\ embedded' = Append(embedded, <<embedding>>)
    /\ vec_index' = vec_index + 1
    /\ UNCHANGED <<vec_pc, cleaned_input, model_type, model_present,
                   vectorized_file, vec_error>>

\* lines 22-26: question["text"], question["id"] or question["type"] raises
VecQuestionRaises ==
    /\ vec_pc = "loop"
    /\ vec_index <= Len(cleaned_input)
    /\ ~(RequiredKeys \subseteq DOMAIN cleaned_input[vec_index])
    /\ vec_error' = "KeyError"
    /\ vec_pc' = "raised"
    /\ UNCHANGED <<cleaned_input, model_type, model_present, vec_index,
                   vectorized_questions, vectorized_file, embedded>>

\* lines 54-62: the loop is over, the result is written
VecSave ==
    /\ vec_pc = "loop"
    /\ vec_index > Len(cleaned_input)
    /\ vectorized_file' =
          <<[model |-> model_type, questions |-> vectorized_questions]>>
    /\ vec_pc' = "done"
    /\ UNCHANGED <<cleaned_input, model_type, model_present, vec_index,
                   vectorized_questions, vec_error, embedded>>

---------------------------------------------------------------------------
(* Claims about vectorize_paper *)

\* what vectorize_paper wrote
VectorizedOut == vectorized_file[1]

\* the segments whose embedding succeeded, for processed record k
Succeeded(k) == {i \in 1..Len(embedded[k]) : embedded[k][i] # None}

RECURSIVE SumOver(_, _, _)
\* the sum of coordinate c of the embeddings of record k over the segments I
SumOver(I, k, c) ==
    IF I = {} THEN RInt(0)
    ELSE LET i == CHOOSE x \in I : TRUE
         IN RAdd(embedded[k][i][c], SumOver(I \ {i}, k, c))

\* v is the zero vector of the provider's dimension
IsZeroVector(v) ==
    /\ Len(v) = vector_size
    /\ \A c \in 1..Len(v) : v[c][1] = 0

\* no embedding failure ends the call: an exception comes from the
\* constructor or from a record that lacks a key, and a call that ends
\* normally has written every record
NoEmbeddingAbort ==
    /\ vec_pc = "raised" =>
           \/ vec_index = 0 /\ ~(model_type \in ModelPaths /\ model_present)
           \/ /\ vec_index \in 1..Len(cleaned_input)
              /\ ~(RequiredKeys \subseteq DOMAIN cleaned_input[vec_index])
    /\ vec_pc = "done" =>
           /\ VectorizedOut.questions = vectorized_questions
           /\ Len(vectorized_questions) = Len(cleaned_input)

\* C6: the vector of a question with segments is the component-wise mean of
\* the segment embeddings that succeeded (count * vector = their sum), and
\* it is unset when every segment embedding failed.
C6_MeanOfSuccesses ==
    /\ Len(embedded) = Len(vectorized_questions)
    /\ \A k \in 1..Len(vectorized_questions) :
           LET q == vectorized_questions[k]
               n == Cardinality(Succeeded(k))
           IN q.segments # <<>> =>
                 /\ Len(embedded[k]) = Len(q.segments)
                 /\ n = 0 => q.vector = None
                 /\ n > 0 =>
                       /\ q.vector # None
                       /\ Len(q.vector) = vector_size
                       /\ \A c \in 1..vector_size :
                              REq(RMul(q.vector[c], RInt(n)),
                                  SumOver(Succeeded(k), k, c))
    /\ vec_pc = "done" => VectorizedOut.questions = vectorized_questions

\* the written paper holds a question whose mean leaves a failed segment out
\* and a question whose mean is over two segments that both succeeded
C6_Witness ==
    /\ vec_pc = "done"
    /\ \E k \in 1..Len(vectorized_questions) :
           /\ Len(embedded[k]) = 2
           /\ Cardinality(Succeeded(k)) = 1
    /\ \E k \in 1..Len(vectorized_questions) :
           /\ Len(embedded[k]) = 2
           /\ Cardinality(Succeeded(k)) = 2
           /\ vectorized_questions[k].vector = <<<<1, 2>>, <<1, 2>>>>

\* every segment embedding of processed record k failed
AllSegmentsFailed(k) ==
    /\ vectorized_questions[k].segments # <<>>
    /\ Succeeded(k) = {}

\* C7 as stated: when the provider returns no vector for every segment of a
\* question, a zero vector is substituted as the question's vector.
C7_ZeroVectorWhenAllFail ==
    \A k \in 1..Len(vectorized_questions) :
        AllSegmentsFailed(k) => IsZeroVector(vectorized_questions[k].vector)

\* C7 as amended: when the provider returns no vector for every segment of
\* a question that has segments, the question's vector is left unset, and
\* the run continues without a fatal error.
C7_UnsetWhenAllFail ==
    /\ \A k \in 1..Len(vectorized_questions) :
           AllSegmentsFailed(k) => vectorized_questions[k].vector = None
    /\ NoEmbeddingAbort

\* every segment of the first of two questions failed, the second question
\* was vectorized after it and the paper was written
C7_Witness ==
    /\ vec_pc = "done"
    /\ Len(vectorized_questions) = 2
    /\ AllSegmentsFailed(1)
    /\ Len(embedded[1]) = 2
    /\ vectorized_questions[2].vector # None

\* C8: a question without segments always gets a vector: the embedding of
\* its full text when there is one, otherwise the zero vector of the
\* provider's dimension; the failure does not end the run.
C8_FullTextOrZero ==
    /\ \A k \in 1..Len(vectorized_questions) :
           LET q == vectorized_questions[k]
           IN q.segments = <<>> =>
                 /\ Len(embedded[k]) = 1
                 /\ embedded[k][1] \in VectorizeTextResults(q.text)
                 /\ q.vector # None
                 /\ embedded[k][1] # None => q.vector = embedded[k][1]
                 /\ embedded[k][1] = None => IsZeroVector(q.vector)
    /\ NoEmbeddingAbort

\* the full-text embedding of the first of two questions failed, its vector
\* is the zero vector, the second question was vectorized after it from
\* its full text and the paper was written
C8_Witness ==
    /\ vec_pc = "done"
    /\ Len(vectorized_questions) = 2
    /\ vectorized_questions[1].segments = <<>>
    /\ embedded[1] = <<None>>
    /\ IsZeroVector(vectorized_questions[1].vector)
    /\ vectorized_questions[2].segments = <<>>
    /\ embedded[2] # <<None>>
    /\ ~IsZeroVector(vectorized_questions[2].vector)

---------------------------------------------------------------------------
(* calculate_similarity              src/similarity_calculator.py:30-128 *)

\* The vectors of this machine have integer coordinates, and the papers of
\* SimInit are those whose norms and pairwise distances are integers, so
\* that every score is an exact rational.

RSub(a, b) == RAdd(a, <<-b[1], b[2]>>)

RECURSIVE Dot(_, _)
Dot(u, v) == IF u = <<>> THEN 0 ELSE Head(u) * Head(v) + Dot(Tail(u), Tail(v))

\* np.sum(diff**2, axis=-1) of line 91
SquaredDiff(u, v) == Dot([i \in 1..Len(u) |-> u[i] - v[i]],
                         [i \in 1..Len(u) |-> u[i] - v[i]])

IsSquare(n) == \E r \in 0..n : r * r = n

\* np.sqrt on a perfect square
Sqrt(n) == CHOOSE r \in 0..n : r * r = n

\* line 85 with a row of norm 0 taken as equal to every row
CosineSimilarityZeroAsOne(u, v) ==
    LET nu == Sqrt(Dot(u, u))
        nv == Sqrt(Dot(v, v))
    IN IF nu = 0 \/ nv = 0 THEN RInt(1) ELSE RNorm(<<Dot(u, v), nu * nv>>)

\* sklearn's cosine_similarity for one pair of rows (line 85): the rows are
\* normalised, a row of norm 0 is left as it is, and the dot product taken
CosineSimilarity(u, v) ==
    LET nu == Sqrt(Dot(u, u))
        nv == Sqrt(Dot(v, v))
    IN IF nu = 0 \/ nv = 0 THEN RInt(0) ELSE RNorm(<<Dot(u, v), nu * nv>>)

\* lines 89-95: 1 / (1 + distance)
EuclideanSimilarity(u, v) == <<1, 1 + Sqrt(SquaredDiff(u, v))>>

\* line 98
FusedScore(u, v, w) ==
    RAdd(RMul(w, CosineSimilarity(u, v)),
         RMul(RSub(RInt(1), w), EuclideanSimilarity(u, v)))

\* fused_similarity(v_a, v_b, w_cos), lines 14-28
fused_similarity(v_a, v_b, w_cos) ==
    RAdd(RMul(w_cos, CosineSimilarity(v_a, v_b)),
         RMul(RSub(RInt(1), w_cos), EuclideanSimilarity(v_a, v_b)))

\* the test of lines 48 and 58
HasVector(q) == "vector" \in DOMAIN q /\ q.vector # None

\* lines 46-64: the questions that carry a vector
WithVector(paper) == SelectSeq(paper.questions, HasVector)

\* lines 50-54, 60-64
Info(q) == [id |-> q.id, type |-> q.type, text |-> q.text]

\* the test of line 107 with a strict comparison
MeetsThresholdStrict(sim, thr) == ~RLeq(sim, thr)

\* the test of line 107: sim >= threshold
MeetsThreshold(sim, thr) == RLeq(thr, sim)

\* line 104 comparing the type of side A with one type only
TypeExcludedOneSided(ts, qa, qb) == ts /\ qa.type = "MC" /\ qb.type # "MC"

\* line 104 without the comparison of the types
TypeExcludedNever(ts, qa, qb) == FALSE

\* the test of line 104
TypeExcluded(ts, qa, qb) == ts /\ qa.type # qb.type

\* lines 101-112: the pairs in the order of the two loops, each
\* [i, j, similarity]
CandidatePairs(qa, qb, thr, ts, w) ==
    LET n == Len(qa)
        m == Len(qb)
        all == [k \in 1..(n * m) |->
                   LET i == ((k - 1) \div m) + 1
                       j == ((k - 1) % m) + 1
                   IN [i |-> i, j |-> j,
                       similarity |-> FusedScore(qa[i].vector, qb[j].vector, w)]]
    IN SelectSeq(all, LAMBDA c :
           /\ ~TypeExcluded(ts, qa[c.i], qb[c.j])
           /\ MeetsThreshold(c.similarity, thr))

RECURSIVE InsertDescendingUnstable(_, _)
\* x placed before the first element whose similarity is at most its own
InsertDescendingUnstable(sorted, x) ==
    IF sorted = <<>> THEN <<x>>
    ELSE IF ~RLeq(Head(sorted).similarity, x.similarity)
         THEN <<Head(sorted)>> \o InsertDescendingUnstable(Tail(sorted), x)
         ELSE <<x>> \o sorted

RECURSIVE InsertDescending(_, _)
\* x placed after every element whose similarity is at least its own
InsertDescending(sorted, x) ==
    IF sorted = <<>> THEN <<x>>
    ELSE IF RLeq(x.similarity, Head(sorted).similarity)
         THEN <<Head(sorted)>> \o InsertDescending(Tail(sorted), x)
         ELSE <<x>> \o sorted

RECURSIVE SortDescending(_, _)
\* line 114: list.sort(key=similarity, reverse=True), a stable sort
SortDescending(pairs, sorted) ==
    IF pairs = <<>> THEN sorted
    ELSE SortDescending(Tail(pairs), InsertDescending(sorted, Head(pairs)))

PaperAFile == "paper_a_vectorized.json"
PaperBFile == "paper_b_vectorized.json"

\* lines 67-78 with the counts of all questions of the files
EmptyResultAllQuestions(qa, qb, thr, ts, w, pa, pb) ==
    [paper_a |-> PaperAFile,
     paper_b |-> PaperBFile,
     method |-> "fused",
     threshold |-> thr,
     type_sensitive |-> ts,
     fusion_weight |-> w,
     total_questions_a |-> Len(pa.questions),
     total_questions_b |-> Len(pb.questions),
     total_pairs |-> 0,
     similar_pairs |-> <<>>]

\* lines 67-78: the result when a side has no vector
EmptyResult(qa, qb, thr, ts, w, pa, pb) ==
    [paper_a |-> PaperAFile,
     paper_b |-> PaperBFile,
     method |-> "fused",
     threshold |-> thr,
     type_sensitive |-> ts,
     fusion_weight |-> w,
     total_questions_a |-> Len(qa),
     total_questions_b |-> Len(qb),
     total_pairs |-> 0,
     similar_pairs |-> <<>>]

\* lines 116-128: the result built from the sorted pairs
FullResult(qa, qb, thr, ts, w, dedup, sorted) ==
    [paper_a |-> PaperAFile,
     paper_b |-> PaperBFile,
     method |-> "fused",
     threshold |-> thr,
     type_sensitive |-> ts,
     fusion_weight |-> w,
     total_questions_a |-> Len(qa),
     total_questions_b |-> Len(qb),
     total_pairs |-> Len(sorted),
     deduplicate |-> dedup,
     similar_pairs |-> [k \in 1..Len(sorted) |->
                           [paper_a |-> Info(qa[sorted[k].i]),
                            paper_b |-> Info(qb[sorted[k].j]),
                            similarity |-> sorted[k].similarity]]]

\* vectorized questions, in the order a paper lists them: an orthogonal
\* vector, equal vectors under two types, an opposite vector, the zero
\* vector, a null vector and no vector key
SimQuestions ==
    << [id |-> "q1", type |-> "MC", text |-> <<"b">>, vector |-> <<0, 4>>],
       [id |-> "q2", type |-> "MC", text |-> <<"a">>, vector |-> <<3, 0>>],
       [id |-> "q3", type |-> "TF", text |-> <<"a">>, vector |-> <<3, 0>>],
       [id |-> "q4", type |-> "TF", text |-> <<"b">>, vector |-> <<-3, 0>>],
       [id |-> "q5", type |-> "MC", text |-> <<SP>>, vector |-> <<0, 0>>],
       [id |-> "q6", type |-> "MC", text |-> <<NUM>>, vector |-> None],
       [id |-> "q7", type |-> "TF", text |-> <<"a">>] >>

RECURSIVE Pick(_, _, _)
\* the elements of s at the indices I, in the order of s, from index k on
Pick(s, I, k) ==
    IF k > Len(s) THEN <<>>
    ELSE (IF k \in I THEN <<s[k]>> ELSE <<>>) \o Pick(s, I, k + 1)

\* the papers of at most n questions taken from s in order
PapersOf(s, n) ==
    {[model |-> "sentence-bert", questions |-> Pick(s, I, 1)] :
        I \in {J \in SUBSET (1..Len(s)) : Cardinality(J) <= n}}

\* the norms and distances the call computes are integers
ExactScores(pa, pb) ==
    LET qa == WithVector(pa)
        qb == WithVector(pb)
    IN /\ \A i \in 1..Len(qa) : IsSquare(Dot(qa[i].vector, qa[i].vector))
       /\ \A j \in 1..Len(qb) : IsSquare(Dot(qb[j].vector, qb[j].vector))
       /\ \A i \in 1..Len(qa), j \in 1..Len(qb) :
              IsSquare(SquaredDiff(qa[i].vector, qb[j].vector))

SimInit ==
    /\ sim_pc = "call"
    /\ paper_a \in PapersOf(SimQuestions, MaxSimQuestions)
    /\ paper_b \in PapersOf(SimQuestions, MaxSimQuestions)
    /\ ExactScores(paper_a, paper_b)
    /\ threshold \in {<<-1, 1>>, <<1, 10>>, <<1, 1>>}
    /\ type_sensitive \in BOOLEAN
    /\ fusion_weight \in {<<3, 5>>, <<1, 1>>}
    /\ sim_deduplicate \in BOOLEAN
    /\ results = <<>>
    /\ pair_index = <<>>

SimIdle ==
    /\ sim_pc = "idle"
    /\ paper_a = [model |-> "sentence-bert", questions |-> <<>>]
    /\ paper_b = [model |-> "sentence-bert", questions |-> <<>>]
    /\ threshold = <<7, 10>>
    /\ type_sensitive = TRUE
    /\ fusion_weight = <<3, 5>>
    /\ sim_deduplicate = TRUE
    /\ results = <<>>
    /\ pair_index = <<>>

\* lines 38-78: a side has no vector
CalculateSimilarityEmpty ==
    /\ sim_pc = "call"
    /\ LET qa == WithVector(paper_a)
           qb == WithVector(paper_b)
       IN /\ qa = <<>> \/ qb = <<>>
          /\ results' = EmptyResult(qa, qb, threshold, type_sensitive,
                                    fusion_weight, paper_a, paper_b)
    /\ sim_pc' = "return"
    /\ UNCHANGED <<paper_a, paper_b, threshold, type_sensitive, fusion_weight,
                   sim_deduplicate, pair_index>>

\* lines 38-128: both sides have vectors
CalculateSimilarity ==
    /\ sim_pc = "call"
    /\ LET qa == WithVector(paper_a)
           qb == WithVector(paper_b)
           sorted == SortDescending(CandidatePairs(qa, qb, threshold,
                                                   type_sensitive, fusion_weight),
                                    <<>>)
       IN /\ ~(qa = <<>> \/ qb = <<>>)
          /\ results' = FullResult(qa, qb, threshold, type_sensitive,
                                   fusion_weight, sim_deduplicate, sorted)
          /\ pair_index' = [k \in 1..Len(sorted) |-> <<sorted[k].i, sorted[k].j>>]
    /\ sim_pc' = "return"
    /\ UNCHANGED <<paper_a, paper_b, threshold, type_sensitive, fusion_weight,
                   sim_deduplicate>>

---------------------------------------------------------------------------
(* Claims about calculate_similarity *)

\* how many questions of a paper carry a vector
VectorCount(paper) ==
    Cardinality({k \in 1..Len(paper.questions) :
                    /\ "vector" \in DOMAIN paper.questions[k]
                    /\ paper.questions[k].vector # None})

\* C9: when a side has no question with a vector the call returns, with
\* total_pairs = 0, no pair, and the number of vector-bearing questions of
\* each side as the question counts.
C9_EmptySideZeroPairs ==
    (VectorCount(paper_a) = 0 \/ VectorCount(paper_b) = 0) =>
        /\ sim_pc = "call" => ENABLED CalculateSimilarityEmpty
        /\ sim_pc = "return" =>
               /\ results.total_pairs = 0
               /\ results.similar_pairs = <<>>
               /\ results.total_questions_a = VectorCount(paper_a)
               /\ results.total_questions_b = VectorCount(paper_b)

\* the call returned for a paper A whose two questions both lack a vector
\* and a paper B with two vectors
C9_Witness ==
    /\ sim_pc = "return"
    /\ Len(paper_a.questions) = 2
    /\ VectorCount(paper_a) = 0
    /\ VectorCount(paper_b) = 2
    /\ results.total_questions_a = 0
    /\ results.total_questions_b = 2
    /\ results.total_pairs = 0

\* C10: a pair (i, j) of vector-bearing questions that the type filter does
\* not exclude is returned exactly when its fused score is at least the
\* threshold, and no (i, j) is returned twice.
C10_EmitIffAtLeastThreshold ==
    (sim_pc = "return" /\ VectorCount(paper_a) > 0 /\ VectorCount(paper_b) > 0) =>
        LET qa == WithVector(paper_a)
            qb == WithVector(paper_b)
        IN /\ \A i \in 1..Len(qa), j \in 1..Len(qb) :
                  ~(type_sensitive /\ qa[i].type # qb[j].type) =>
                      ((<<i, j>> \in Range(pair_index)) <=>
                          RLeq(threshold,
                               FusedScore(qa[i].vector, qb[j].vector, fusion_weight)))
           /\ \A k, l \in 1..Len(pair_index) :
                  k # l => pair_index[k] # pair_index[l]
           /\ Len(results.similar_pairs) = Len(pair_index)
           /\ \A k \in 1..Len(pair_index) :
                  LET i == pair_index[k][1]
                      j == pair_index[k][2]
                      pair == results.similar_pairs[k]
                  IN /\ i \in 1..Len(qa) /\ j \in 1..Len(qb)
                     /\ pair.paper_a = Info(qa[i])
                     /\ pair.paper_b = Info(qb[j])
                     /\ REq(pair.similarity,
                            FusedScore(qa[i].vector, qb[j].vector, fusion_weight))

\* with a threshold below 1, a pair whose fused score equals the threshold
\* was returned and a pair of equal types with a lower score was not
C10_Witness ==
    /\ sim_pc = "return"
    /\ ~REq(threshold, RInt(1))
    /\ \E k \in 1..Len(pair_index) :
           REq(results.similar_pairs[k].similarity, threshold)
    /\ LET qa == WithVector(paper_a)
           qb == WithVector(paper_b)
       IN \E i \in 1..Len(qa), j \in 1..Len(qb) :
             /\ qa[i].type = qb[j].type
             /\ <<i, j>> \notin Range(pair_index)
             /\ ~RLeq(threshold,
                      FusedScore(qa[i].vector, qb[j].vector, fusion_weight))

\* C11: with type_sensitive true every returned pair has the same type on
\* its two sides, whatever its score; with type_sensitive false the
\* returned pairs are exactly the pairs whose fused score is at least the
\* threshold, whatever their types.
C11_TypeFilter ==
    sim_pc = "return" =>
        LET qa == WithVector(paper_a)
            qb == WithVector(paper_b)
        IN /\ type_sensitive =>
                  /\ \A k \in 1..Len(results.similar_pairs) :
                         results.similar_pairs[k].paper_a.type
                             = results.similar_pairs[k].paper_b.type
                  /\ \A k \in 1..Len(pair_index) :
                         qa[pair_index[k][1]].type = qb[pair_index[k][2]].type
           /\ ~type_sensitive =>
                  \A i \in 1..Len(qa), j \in 1..Len(qb) :
                      (<<i, j>> \in Range(pair_index)) <=>
                          RLeq(threshold,
                               FusedScore(qa[i].vector, qb[j].vector, fusion_weight))

\* with type_sensitive true, a pair of different types whose score reaches
\* the threshold was left out and a pair of equal types was returned
C11_Witness ==
    /\ sim_pc = "return"
    /\ type_sensitive
    /\ Len(pair_index) > 0
    /\ LET qa == WithVector(paper_a)
           qb == WithVector(paper_b)
       IN \E i \in 1..Len(qa), j \in 1..Len(qb) :
             /\ qa[i].type # qb[j].type
             /\ RLeq(threshold,
                     FusedScore(qa[i].vector, qb[j].vector, fusion_weight))
             /\ <<i, j>> \notin Range(pair_index)

\* (i, j) comes before (k, l) in the enumeration of lines 102-103
EnumeratedBefore(p, q) == p[1] < q[1] \/ (p[1] = q[1] /\ p[2] < q[2])

\* C12: the returned pairs are in non-increasing order of score, and pairs
\* of equal score are in the order of their enumeration, by i and then j.
C12_SortedDescendingStable ==
    sim_pc = "return" =>
        /\ Len(pair_index) = Len(results.similar_pairs)
        /\ \A k, l \in 1..Len(results.similar_pairs) :
               k < l =>
                   /\ RLeq(results.similar_pairs[l].similarity,
                           results.similar_pairs[k].similarity)
                   /\ REq(results.similar_pairs[k].similarity,
                          results.similar_pairs[l].similarity)
                          => EnumeratedBefore(pair_index[k], pair_index[l])

\* four pairs were returned, the first of them is not the first enumerated,
\* and two pairs of equal score follow each other
C12_Witness ==
    /\ sim_pc = "return"
    /\ Len(pair_index) = 4
    /\ pair_index[1] # <<1, 1>>
    /\ ~REq(results.similar_pairs[1].similarity,
            results.similar_pairs[4].similarity)
    /\ REq(results.similar_pairs[1].similarity,
           results.similar_pairs[2].similarity)
    /\ EnumeratedBefore(pair_index[1], pair_index[2])

---------------------------------------------------------------------------
(* calculate_similarity called a second time with the two files swapped *)

SwapIdle ==
    /\ swap_pc = "idle"
    /\ swapped_results = <<>>
    /\ swapped_index = <<>>

\* the first call: the configurations of SimInit, the deduplicate flag left
\* at its default
SwapInit ==
    /\ SimInit
    /\ sim_deduplicate = TRUE
    /\ swap_pc = "call"
    /\ swapped_results = <<>>
    /\ swapped_index = <<>>

\* lines 38-128 for calculate_similarity(paper_b_file, paper_a_file, ...)
\* with the configuration of the first call
CalculateSimilaritySwapped ==
    /\ sim_pc = "return"
    /\ swap_pc = "call"
    /\ LET qa == WithVector(paper_b)
           qb == WithVector(paper_a)
           sorted == SortDescending(CandidatePairs(qa, qb, threshold,
                                                   type_sensitive, fusion_weight),
                                    <<>>)
       IN IF qa = <<>> \/ qb = <<>>
          THEN /\ swapped_results' =
                      [EmptyResult(qa, qb, threshold, type_sensitive,
                                   fusion_weight, paper_b, paper_a)
                          EXCEPT !.paper_a = PaperBFile, !.paper_b = PaperAFile]
               /\ swapped_index' = <<>>
          ELSE /\ swapped_results' =
                      [FullResult(qa, qb, threshold, type_sensitive,
                                  fusion_weight, sim_deduplicate, sorted)
                          EXCEPT !.paper_a = PaperBFile, !.paper_b = PaperAFile]
               /\ swapped_index' =
                      [k \in 1..Len(sorted) |-> <<sorted[k].i, sorted[k].j>>]
    /\ swap_pc' = "return"
    /\ UNCHANGED simVars

\* the pairs of a result as a set of (side A, side B, score)
PairSet(r) ==
    {<<r.similar_pairs[k].paper_a, r.similar_pairs[k].paper_b,
       RNorm(r.similar_pairs[k].similarity)>> : k \in 1..Len(r.similar_pairs)}

\* the same with the two sides exchanged
SwappedPairSet(r) ==
    {<<r.similar_pairs[k].paper_b, r.similar_pairs[k].paper_a,
       RNorm(r.similar_pairs[k].similarity)>> : k \in 1..Len(r.similar_pairs)}

\* C13: calculate_similarity(A, B) and calculate_similarity(B, A) under one
\* configuration return the same pairs with the sides exchanged and the
\* same scores, pair by pair of question positions, and the same total
\* pair count.
C13_SideSwapSymmetry ==
    (sim_pc = "return" /\ swap_pc = "return") =>
        /\ PairSet(results) = SwappedPairSet(swapped_results)
        /\ {<<pair_index[k][1], pair_index[k][2],
              RNorm(results.similar_pairs[k].similarity)>> :
                  k \in 1..Len(pair_index)}
             = {<<swapped_index[k][2], swapped_index[k][1],
                  RNorm(swapped_results.similar_pairs[k].similarity)>> :
                      k \in 1..Len(swapped_index)}
        /\ results.total_pairs = swapped_results.total_pairs
        /\ results.total_pairs = Len(results.similar_pairs)
        /\ swapped_results.total_pairs = Len(swapped_results.similar_pairs)

\* both calls returned three pairs or more of different scores for papers
\* that differ, and the two pair lists are not in the same order of
\* question positions
C13_Witness ==
    /\ sim_pc = "return"
    /\ swap_pc = "return"
    /\ paper_a # paper_b
    /\ results.total_pairs >= 3
    /\ \E k \in 2..Len(pair_index) :
           ~REq(results.similar_pairs[1].similarity,
                results.similar_pairs[k].similarity)
    /\ \E k \in 1..Len(pair_index) :
           pair_index[k] # <<swapped_index[k][2], swapped_index[k][1]>>

---------------------------------------------------------------------------
(* fused_similarity(v_a, v_b, w_cos)  src/similarity_calculator.py:14-28 *)

\* vectors of integer coordinates; FusedInit keeps the pairs whose norms
\* and distance are integers
FusedVectors ==
    {<<0, 0>>, <<3, 0>>, <<0, 4>>, <<-3, 0>>, <<0, -4>>, <<3, 4>>, <<6, 0>>}

\* the default weight of line 16 among them
FusedWeights == {<<0, 1>>, <<3, 5>>, <<6, 10>>, <<1, 1>>}

FusedInit ==
    /\ fs_pc = "call"
    /\ fs_v_a \in FusedVectors
    /\ fs_v_b \in FusedVectors
    /\ IsSquare(Dot(fs_v_a, fs_v_a))
    /\ IsSquare(Dot(fs_v_b, fs_v_b))
    /\ IsSquare(SquaredDiff(fs_v_a, fs_v_b))
    /\ fs_w_cos \in FusedWeights
    /\ fs_result = <<>>

FusedIdle ==
    /\ fs_pc = "idle"
    /\ fs_v_a = <<0, 0>>
    /\ fs_v_b = <<0, 0>>
    /\ fs_w_cos = <<6, 10>>
    /\ fs_result = <<>>

\* lines 14-28
FusedSimilarity ==
    /\ fs_pc = "call"
    /\ fs_result' = fused_similarity(fs_v_a, fs_v_b, fs_w_cos)
    /\ fs_pc' = "return"
    /\ UNCHANGED <<fs_v_a, fs_v_b, fs_w_cos>>

---------------------------------------------------------------------------
(* Claims about the scores *)

ZeroNorm(v) == Dot(v, v) = 0

\* (1 - w) times the similarity 1 / (1 + distance)
EuclideanPart(u, v, w) ==
    RMul(RSub(RInt(1), w), <<1, 1 + Sqrt(SquaredDiff(u, v))>>)

\* C14: when a vector of a pair has norm 0 the cosine term of the pair is 0,
\* so the fused score is (1 - w) times the Euclidean similarity:
\* calculate_similarity returns such a pair exactly when that value reaches
\* the threshold (the type filter permitting) and with that value as its
\* score, and fused_similarity returns that value; every score returned is
\* a defined number (a quotient with a positive denominator).
C14_ZeroNormCosineZero ==
    /\ sim_pc = "return" =>
           LET qa == WithVector(paper_a)
               qb == WithVector(paper_b)
           IN /\ \A k \in 1..Len(results.similar_pairs) :
                     results.similar_pairs[k].similarity[2] > 0
              /\ \A i \in 1..Len(qa), j \in 1..Len(qb) :
                     (ZeroNorm(qa[i].vector) \/ ZeroNorm(qb[j].vector)) =>
                         LET expected ==
                                 EuclideanPart(qa[i].vector, qb[j].vector,
                                               fusion_weight)
                         IN /\ ~(type_sensitive /\ qa[i].type # qb[j].type) =>
                                   ((<<i, j>> \in Range(pair_index)) <=>
                                       RLeq(threshold, expected))
                            /\ \A k \in 1..Len(pair_index) :
                                   pair_index[k] = <<i, j>> =>
                                       REq(results.similar_pairs[k].similarity,
                                           expected)
    /\ fs_pc = "return" =>
           /\ fs_result[2] > 0
           /\ (ZeroNorm(fs_v_a) \/ ZeroNorm(fs_v_b)) =>
                  REq(fs_result, EuclideanPart(fs_v_a, fs_v_b, fs_w_cos))

\* calculate_similarity returned a pair of a zero vector on side A and a
\* vector of norm 3 on side B, with the positive score (1 - 3/5) / (1 + 3)
C14_Witness ==
    /\ sim_pc = "return"
    /\ REq(fusion_weight, <<3, 5>>)
    /\ LET qa == WithVector(paper_a)
           qb == WithVector(paper_b)
       IN \E k \in 1..Len(pair_index) :
             /\ ZeroNorm(qa[pair_index[k][1]].vector)
             /\ Dot(qb[pair_index[k][2]].vector, qb[pair_index[k][2]].vector) = 9
             /\ REq(results.similar_pairs[k].similarity, <<1, 10>>)

\* 0 <= r <= 1
InUnitInterval(r) == RLeq(RInt(0), r) /\ RLeq(r, RInt(1))

\* C15: every returned pair has a score in [0, 1], whatever the vectors, the
\* fusion weight and the threshold of the call.
C15_ScoreInUnitInterval ==
    sim_pc = "return" =>
        \A k \in 1..Len(results.similar_pairs) :
            InUnitInterval(results.similar_pairs[k].similarity)

\* C16: with a threshold or a fusion weight outside [0, 1] the call fails
\* before matching: it computes no score and returns no result.
C16_InvalidConfigIsFatal ==
    (~InUnitInterval(threshold) \/ ~InUnitInterval(fusion_weight)) =>
        /\ sim_pc # "return"
        /\ results = <<>>

---------------------------------------------------------------------------
(* Claims about malformed input records *)

\* a raw record without an id or without its text body
LacksIdOrText(question) ==
    "id" \notin DOMAIN question \/ "richTextContent" \notin DOMAIN question

\* C17: a paper with a record that lacks its id or its text body is
\* rejected: clean_paper_data does not complete and writes no cleaned output.
C17_MissingFieldIsFatal ==
    (\E k \in 1..Len(exam_data) : LacksIdOrText(exam_data[k])) =>
        /\ clean_pc # "done"
        /\ cleaned_file = <<>>

---------------------------------------------------------------------------
(* ExamSimilarityApp.start_analysis        src/gui_tkinter.py:357-429 *)

\* the calls of lines 381-411 in the order of the text, the last one the
\* writing of the output file
StagesVectorizeFirst ==
    <<"vectorize_a", "clean_a", "clean_b", "vectorize_b", "similarity", "write">>

\* the calls of lines 381-411 in the order of the text, the last one the
\* writing of the output file
Stages ==
    <<"clean_a", "vectorize_a", "clean_b", "vectorize_b", "similarity", "write">>

\* the value each stage hands to update_progress before it starts
ProgressBefore ==
    [clean_a |-> 10, vectorize_a |-> 30, clean_b |-> 40, vectorize_b |-> 60,
     similarity |-> 70, write |-> 90]

\* the names tempfile.mkdtemp can give: the prefix of line 373 and a suffix
TempNames == {<<"exam_similarity_", n>> : n \in 1..MaxRuns}

\* lines 363 and 367
FieldsValid(a, b, out, existing) ==
    /\ a # "" /\ b # "" /\ out # ""
    /\ a \in existing /\ b \in existing

\* line 426 leaving the directory in place
RmtreeKeeps(dirs, d) == dirs

\* line 426: shutil.rmtree(temp_dir)
Rmtree(dirs, d) == dirs \ {d}

RunInit ==
    /\ run_pc = "ready"
    /\ runs = 0
    /\ paper_a_entry = ""
    /\ paper_b_entry = ""
    /\ output_entry = ""
    /\ existing_files = {}
    /\ temp_dir = None
    /\ temp_dirs = {}
    /\ stage = 0
    /\ stages = <<>>
    /\ progress = 0
    /\ output_written = "no"
    /\ raised = FALSE
    /\ cleanup = "none"
    /\ abandoned = {}

RunIdle ==
    /\ run_pc = "idle"
    /\ runs = 0
    /\ paper_a_entry = ""
    /\ paper_b_entry = ""
    /\ output_entry = ""
    /\ existing_files = {}
    /\ temp_dir = None
    /\ temp_dirs = {}
    /\ stage = 0
    /\ stages = <<>>
    /\ progress = 0
    /\ output_written = "no"
    /\ raised = FALSE
    /\ cleanup = "none"
    /\ abandoned = {}

\* lines 357-369: the button is clicked with some contents of the three
\* fields; the run returns at line 365 or 369, or enters the try block
StartAnalysis ==
    /\ run_pc \in {"ready", "done"}
    /\ runs < MaxRuns
    /\ runs' = runs + 1
    /\ \E a \in {"", "a.json"}, b \in {"", "b.json"}, out \in {"", "out.json"},
          existing \in SUBSET {"a.json", "b.json"} :
          /\ paper_a_entry' = a
          /\ paper_b_entry' = b
          /\ output_entry' = out
          /\ existing_files' = existing
          /\ run_pc' = IF FieldsValid(a, b, out, existing) THEN "mkdtemp" ELSE "done"
    /\ temp_dir' = None
    /\ stage' = 0
    /\ stages' = <<>>
    /\ output_written' = "no"
    /\ raised' = FALSE
    /\ cleanup' = "none"
    /\ UNCHANGED <<temp_dirs, progress, abandoned>>

\* lines 373-374: mkdtemp creates a directory of a name not in use
MakeTempDir ==
    /\ run_pc = "mkdtemp"
    /\ \E d \in TempNames \ temp_dirs :
          /\ temp_dir' = d
          /\ temp_dirs' = temp_dirs \cup {d}
    /\ progress' = 5
    /\ stage' = 1
    /\ run_pc' = "stage"
    /\ UNCHANGED <<runs, paper_a_entry, paper_b_entry, output_entry,
                   existing_files, stages, output_written, raised, cleanup,
                   abandoned>>

\* line 373 raises: temp_dir is not bound
MakeTempDirRaises ==
    /\ run_pc = "mkdtemp"
    /\ raised' = TRUE
    /\ run_pc' = "except"
    /\ UNCHANGED <<runs, paper_a_entry, paper_b_entry, output_entry,
                   existing_files, temp_dir, temp_dirs, stage, stages, progress,
                   output_written, cleanup, abandoned>>

\* lines 380-411: the next stage runs to its end
StageRuns ==
    /\ run_pc = "stage"
    /\ stage <= Len(Stages)
    /\ progress' = ProgressBefore[Stages[stage]]
    /\ stages' = Append(stages, Stages[stage])
    /\ output_written' = IF Stages[stage] = "write" THEN "complete" ELSE output_written
    /\ stage' = stage + 1
    /\ run_pc' = IF stage = Len(Stages) THEN "display" ELSE "stage"
    /\ UNCHANGED <<runs, paper_a_entry, paper_b_entry, output_entry,
                   existing_files, temp_dir, temp_dirs, raised, cleanup,
                   abandoned>>

\* lines 380-410: the next stage raises; when it is the writing of the
\* output file, os.makedirs or open raised and nothing was written
StageRaises ==
    /\ run_pc = "stage"
    /\ stage <= Len(Stages)
    /\ progress' = ProgressBefore[Stages[stage]]
    /\ stages' = Append(stages, Stages[stage])
    /\ raised' = TRUE
    /\ run_pc' = "except"
    /\ UNCHANGED <<runs, paper_a_entry, paper_b_entry, output_entry,
                   existing_files, temp_dir, temp_dirs, stage, output_written,
                   cleanup, abandoned>>

\* line 411: json.dump raises inside the with block, after open created or
\* truncated the output file: what the file holds is what was written so far
WriteRaises ==
    /\ run_pc = "stage"
    /\ stage <= Len(Stages)
    /\ Stages[stage] = "write"
    /\ progress' = ProgressBefore[Stages[stage]]
    /\ stages' = Append(stages, Stages[stage])
    /\ output_written' = "partial"
    /\ raised' = TRUE
    /\ run_pc' = "except"
    /\ UNCHANGED <<runs, paper_a_entry, paper_b_entry, output_entry,
                   existing_files, temp_dir, temp_dirs, stage, cleanup,
                   abandoned>>

\* lines 414-416
DisplayResults ==
    /\ run_pc = "display"
    /\ progress' = 100
    /\ run_pc' = "finally"
    /\ UNCHANGED <<runs, paper_a_entry, paper_b_entry, output_entry,
                   existing_files, temp_dir, temp_dirs, stage, stages,
                   output_written, raised, cleanup, abandoned>>

\* lines 414-415: display_results raises
DisplayResultsRaises ==
    /\ run_pc = "display"
    /\ progress' = 95
    /\ raised' = TRUE
    /\ run_pc' = "except"
    /\ UNCHANGED <<runs, paper_a_entry, paper_b_entry, output_entry,
                   existing_files, temp_dir, temp_dirs, stage, stages,
                   output_written, cleanup, abandoned>>

\* lines 418-421
HandleException ==
    /\ run_pc = "except"
    /\ progress' = 0
    /\ run_pc' = "finally"
    /\ UNCHANGED <<runs, paper_a_entry, paper_b_entry, output_entry,
                   existing_files, temp_dir, temp_dirs, stage, stages,
                   output_written, raised, cleanup, abandoned>>

\* lines 422-427: the directory, when one was made and is there, is removed
CleanTempDir ==
    /\ run_pc = "finally"
    /\ IF temp_dir # None /\ temp_dir \in temp_dirs
       THEN /\ temp_dirs' = Rmtree(temp_dirs, temp_dir)
            /\ cleanup' = "removed"
       ELSE UNCHANGED <<temp_dirs, cleanup>>
    /\ run_pc' = "done"
    /\ UNCHANGED <<runs, paper_a_entry, paper_b_entry, output_entry,
                   existing_files, temp_dir, stage, stages, progress,
                   output_written, raised, abandoned>>

\* lines 426-429: shutil.rmtree raises, the failure is logged and the
\* directory stays
CleanTempDirRaises ==
    /\ run_pc = "finally"
    /\ temp_dir # None /\ temp_dir \in temp_dirs
    /\ cleanup' = "failed"
    /\ abandoned' = abandoned \cup {temp_dir}
    /\ run_pc' = "done"
    /\ UNCHANGED <<runs, paper_a_entry, paper_b_entry, output_entry,
                   existing_files, temp_dir, temp_dirs, stage, stages, progress,
                   output_written, raised>>

---------------------------------------------------------------------------
(* Claims about start_analysis *)

\* the run is between mkdtemp and the end of the finally block
InTryBlock == run_pc \in {"stage", "display", "except", "finally"}

\* C18 as stated: a run that made a temporary directory has removed it when
\* it ends, on the success path and on the exception path, and no run
\* works in the directory of another run.
C18_TempDirRemoved ==
    /\ (run_pc = "done" /\ temp_dir # None) => temp_dir \notin temp_dirs
    /\ (InTryBlock /\ temp_dir # None) => temp_dir \notin abandoned

\* C18 as amended: a run that made a temporary directory has called rmtree
\* on it when it ends, on the success path and on the exception path; the
\* directory is gone unless that call raised, and then it stays on the
\* disk; the directory a run works in is newly made, it is on the disk
\* while the run lasts and is none of those left behind by earlier runs,
\* which are the only other ones on the disk.
C18_TempDirRemovedUnlessRmtreeFails ==
    /\ (run_pc = "done" /\ temp_dir # None) =>
           /\ cleanup \in {"removed", "failed"}
           /\ cleanup = "removed" => temp_dir \notin temp_dirs
           /\ cleanup = "failed" => temp_dir \in temp_dirs /\ temp_dir \in abandoned
    /\ (run_pc = "done" /\ temp_dir = None) => cleanup = "none"
    /\ (InTryBlock /\ temp_dir # None) =>
           /\ temp_dir \in temp_dirs
           /\ temp_dir \notin abandoned
    /\ temp_dirs \subseteq
           (abandoned \cup (IF InTryBlock /\ temp_dir # None THEN {temp_dir} ELSE {}))

\* the second run ended after one of its stages raised and its directory
\* is gone, while the directory of the first run, whose removal failed, is
\* still on the disk
C18_Witness ==
    /\ run_pc = "done"
    /\ runs = 2
    /\ raised
    /\ Len(stages) >= 2
    /\ temp_dir # None
    /\ cleanup = "removed"
    /\ temp_dir \notin temp_dirs
    /\ abandoned # {}
    /\ abandoned = temp_dirs

---------------------------------------------------------------------------
(* The stages of lines 376-405 of start_analysis as calls on files: the two
   stages of paper A and the two stages of paper B in any interleaving that
   keeps clean before vectorize on each side, then calculate_similarity *)

Sides == {"a", "b"}

\* lines 381 and 391: paper_id="paper_a", paper_id="paper_b"
PaperIdOf(side) == IF side = "a" THEN <<"paper_a">> ELSE <<"paper_b">>

\* one cleaned file for both papers
CleanedPathShared(side) == "paper_cleaned.json"

\* lines 377 and 387
CleanedPath(side) ==
    IF side = "a" THEN "paper_a_cleaned.json" ELSE "paper_b_cleaned.json"

\* lines 378 and 388
VectorPath(side) ==
    IF side = "a" THEN "paper_a_vectorized.json" ELSE "paper_b_vectorized.json"

TempFiles == {CleanedPath(s) : s \in Sides} \cup {VectorPath(s) : s \in Sides}

RECURSIVE CleanLoop(_, _, _, _, _)
\* data_cleaner.py:103-125 over the records exam
CleanLoop(exam, pid, dedup, seen, out) ==
    IF exam = <<>> THEN out
    ELSE LET cleaned_question == CleanedQuestion(Head(exam))
             fingerprint == get_content_fingerprint(cleaned_question, pid)
         IN IF IsDuplicate(dedup, fingerprint, seen)
            THEN CleanLoop(Tail(exam), pid, dedup, seen, out)
            ELSE CleanLoop(Tail(exam), pid, dedup, seen \cup {fingerprint},
                           Append(out,
                                  [k \in DOMAIN cleaned_question \cup {"fingerprint"} |->
                                      IF k = "fingerprint" THEN fingerprint
                                      ELSE cleaned_question[k]]))

\* data_cleaner.py:91-130: what clean_paper_data writes for the records exam
clean_paper_data(exam, pid, dedup) ==
    CleanLoop(exam, EffectivePaperId(pid), dedup, {}, <<>>)

\* vectorizer.py:75-135 for a provider whose encode raises on the texts of
\* failing and on no other
vectorize_text(t, failing) ==
    IF Strip(t) = <<>> THEN Zeros(vector_size)
    ELSE LET segs == segment_text(extract_core_content(t), DefaultMaxLength)
         IN IF segs = <<>> \/ t \in failing THEN None
            ELSE Mean([i \in 1..Len(segs) |-> Encode(segs[i])])

\* paper_vectorizer.py:21-52 for one record
VectorizedQuestion(question, failing) ==
    LET segments == Get(question, "segments", <<>>)
    IN IF segments # <<>>
       THEN QuestionData(question,
                SegmentsVector(Successes([i \in 1..Len(segments) |->
                                             vectorize_text(segments[i], failing)])))
       ELSE QuestionData(question,
                FullTextVector(vectorize_text(question.text, failing)))

\* paper_vectorizer.py:12-62: what vectorize_paper writes
vectorize_paper(exam, mt, failing) ==
    [model |-> mt,
     questions |-> [k \in 1..Len(exam) |-> VectorizedQuestion(exam[k], failing)]]

\* similarity_calculator.py:47, 57: np.array(q["vector"]) for a vector of
\* whole-number coordinates
WholeVector(v) == [i \in 1..Len(v) |-> v[i][1] \div v[i][2]]

\* the questions of a vectorized file with their vectors as arrays
LoadedPaper(paper) ==
    [model |-> paper.model,
     questions |-> [k \in 1..Len(paper.questions) |->
                       IF paper.questions[k].vector = None THEN paper.questions[k]
                       ELSE [paper.questions[k] EXCEPT
                                !.vector = WholeVector(paper.questions[k].vector)]]]

\* similarity_calculator.py:30-128: the dict the call returns
calculate_similarity(pa, pb, thr, ts, w, dedup) ==
    LET qa == WithVector(pa)
        qb == WithVector(pb)
    IN IF qa = <<>> \/ qb = <<>>
       THEN EmptyResult(qa, qb, thr, ts, w, pa, pb)
       ELSE FullResult(qa, qb, thr, ts, w, dedup,
                       SortDescending(CandidatePairs(qa, qb, thr, ts, w), <<>>))

\* raw records, in the order a paper lists them: a text, another text, the
\* first text again inside a tag, a blank text
PipeQuestions ==
    << [id |-> "1", type |-> "MC", richTextContent |-> <<"a", "a", "a">>],
       [id |-> "2", type |-> "MC", richTextContent |-> <<"b", "b", "b", "b">>],
       [id |-> "3", type |-> "MC", richTextContent |-> <<"<p>", "a", "a", "a", "</p>">>],
       [id |-> "4", type |-> "TF", richTextContent |-> <<SP>>] >>

\* the input papers: at most n records of PipeQuestions, in order
RawPapers(n) ==
    {Pick(PipeQuestions, I, 1) :
        I \in {J \in SUBSET (1..Len(PipeQuestions)) : Cardinality(J) <= n}}

\* the texts on which the provider may raise
FailingTexts == {<<"b", "b", "b", "b">>}

\* the values the widgets of gui_tkinter.py:39-44 start with
DefaultModel == "sentence-bert"
DefaultThreshold == <<7, 10>>
DefaultTypeSensitive == TRUE
DefaultFusionWeight == <<6, 10>>

\* every vector of a vectorized paper has whole-number coordinates
WholeVectors(paper) ==
    \A k \in 1..Len(paper.questions) :
        paper.questions[k].vector # None =>
            \A i \in 1..Len(paper.questions[k].vector) :
                paper.questions[k].vector[i][1] % paper.questions[k].vector[i][2] = 0

\* the vectorized papers of the sequential run: clean, then vectorize
SequentialVectorized(raw_paper, side, dedup, failing) ==
    vectorize_paper(clean_paper_data(raw_paper, PaperIdOf(side), dedup),
                    DefaultModel, failing)

PipeInit ==
    /\ pipe_pc = [s \in Sides |-> "clean"]
    /\ pipe_raw \in [Sides -> RawPapers(MaxPipeQuestions)]
    /\ pipe_deduplicate \in BOOLEAN
    /\ failing_texts \in SUBSET FailingTexts
    /\ LET va == SequentialVectorized(pipe_raw["a"], "a", pipe_deduplicate, failing_texts)
           vb == SequentialVectorized(pipe_raw["b"], "b", pipe_deduplicate, failing_texts)
       IN /\ WholeVectors(va) /\ WholeVectors(vb)
          /\ ExactScores(LoadedPaper(va), LoadedPaper(vb))
    /\ pipe_files = [f \in TempFiles |-> <<>>]
    /\ pipe_results = <<>>
    /\ pipe_order = <<>>

PipeIdle ==
    /\ pipe_pc = [s \in Sides |-> "idle"]
    /\ pipe_raw = [s \in Sides |-> <<>>]
    /\ pipe_deduplicate = TRUE
    /\ failing_texts = {}
    /\ pipe_files = [f \in TempFiles |-> <<>>]
    /\ pipe_results = <<>>
    /\ pipe_order = <<>>

\* lines 381, 391: clean_paper_data(paper, cleaned, paper_id, deduplicate)
CleanStage(side) ==
    /\ pipe_pc[side] = "clean"
    /\ pipe_files' =
           [pipe_files EXCEPT ![CleanedPath(side)] =
               <<clean_paper_data(pipe_raw[side], PaperIdOf(side), pipe_deduplicate)>>]
    /\ pipe_pc' = [pipe_pc EXCEPT ![side] = "vectorize"]
    /\ pipe_order' = Append(pipe_order, <<"clean", side>>)
    /\ UNCHANGED <<pipe_raw, pipe_deduplicate, failing_texts, pipe_results>>

\* lines 384, 394: vectorize_paper(cleaned, vector, model, model_dir)
VectorizeStage(side) ==
    /\ pipe_pc[side] = "vectorize"
    /\ pipe_files' =
           [pipe_files EXCEPT ![VectorPath(side)] =
               <<vectorize_paper(pipe_files[CleanedPath(side)][1], DefaultModel,
                                 failing_texts)>>]
    /\ pipe_pc' = [pipe_pc EXCEPT ![side] = "done"]
    /\ pipe_order' = Append(pipe_order, <<"vectorize", side>>)
    /\ UNCHANGED <<pipe_raw, pipe_deduplicate, failing_texts, pipe_results>>

CleanStageA == CleanStage("a")
VectorizeStageA == VectorizeStage("a")
CleanStageB == CleanStage("b")
VectorizeStageB == VectorizeStage("b")

\* lines 398-405: calculate_similarity on the two vectorized files
SimilarityStage ==
    /\ \A s \in Sides : pipe_pc[s] = "done"
    /\ pipe_results = <<>>
    /\ pipe_results' =
           calculate_similarity(LoadedPaper(pipe_files[VectorPath("a")][1]),
                                LoadedPaper(pipe_files[VectorPath("b")][1]),
                                DefaultThreshold, DefaultTypeSensitive,
                                DefaultFusionWeight, pipe_deduplicate)
    /\ pipe_order' = Append(pipe_order, <<"similarity", "ab">>)
    /\ UNCHANGED <<pipe_pc, pipe_raw, pipe_deduplicate, failing_texts, pipe_files>>

---------------------------------------------------------------------------
(* Claims about the two-paper pipeline *)

\* the order of the text of start_analysis
SequentialOrder ==
    << <<"clean", "a">>, <<"vectorize", "a">>, <<"clean", "b">>,
       <<"vectorize", "b">>, <<"similarity", "ab">> >>

\* C19: in whatever order the stages of paper A and of paper B ran, each
\* side cleaning before vectorizing, the cleaned file and the vectorized
\* file of each side and the comparison result are those of the run that
\* cleans and vectorizes A, then cleans and vectorizes B: each is the value
\* the stage functions give on that side's input alone.
C19_InterleavingIndependent ==
    /\ \A s \in Sides :
           /\ pipe_pc[s] = "clean" =>
                  pipe_files[CleanedPath(s)] = <<>> /\ pipe_files[VectorPath(s)] = <<>>
           /\ pipe_pc[s] = "vectorize" => pipe_files[VectorPath(s)] = <<>>
    /\ pipe_results # <<>> =>
           LET ca == clean_paper_data(pipe_raw["a"], PaperIdOf("a"), pipe_deduplicate)
               cb == clean_paper_data(pipe_raw["b"], PaperIdOf("b"), pipe_deduplicate)
               va == vectorize_paper(ca, DefaultModel, failing_texts)
               vb == vectorize_paper(cb, DefaultModel, failing_texts)
           IN /\ pipe_files[CleanedPath("a")] = <<ca>>
              /\ pipe_files[CleanedPath("b")] = <<cb>>
              /\ pipe_files[VectorPath("a")] = <<va>>
              /\ pipe_files[VectorPath("b")] = <<vb>>
              /\ pipe_results =
                     calculate_similarity(LoadedPaper(va), LoadedPaper(vb),
                                          DefaultThreshold, DefaultTypeSensitive,
                                          DefaultFusionWeight, pipe_deduplicate)

\* the stages ran in the order clean B, clean A, vectorize B, vectorize A,
\* the cleaning of A dropped a repeated record, the provider failed on a
\* text, and the comparison returned a pair
C19_Witness ==
    /\ pipe_results # <<>>
    /\ pipe_order # SequentialOrder
    /\ pipe_order[1] = <<"clean", "b">>
    /\ pipe_order[2] = <<"clean", "a">>
    /\ pipe_order[3] = <<"vectorize", "b">>
    /\ Len(pipe_files[CleanedPath("a")][1]) < Len(pipe_raw["a"])
    /\ failing_texts # {}
    /\ pipe_raw["a"] # pipe_raw["b"]
    /\ pipe_results.total_pairs >= 1

---------------------------------------------------------------------------
(* clean_html called on a raw text of its own
                                                 src/data_cleaner.py:17-43 *)

\* the units a raw text is made of: a letter, the two kinds of whitespace,
\* a control character, the math delimiters, and a tag with an attribute
HtmlUnits == {"a", SP, NL, CTL, DOLLAR, LBRACKET, RBRACKET, ATTR_OPEN, ATTR_CLOSE}

RECURSIVE WellFormedMarkup(_, _)
\* the markup bleach is given is well formed: a quote-and-bracket closes the
\* tag opened last and nothing else, and no tag opens inside a tag
WellFormedMarkup(s, open) ==
    IF s = <<>> THEN ~open
    ELSE IF Head(s) = ATTR_OPEN THEN ~open /\ WellFormedMarkup(Tail(s), TRUE)
    ELSE IF Head(s) = ATTR_CLOSE THEN open /\ WellFormedMarkup(Tail(s), FALSE)
    ELSE WellFormedMarkup(Tail(s), open)

\* the raw texts: every text of at most MaxHtmlLen units whose markup, once
\* the math spans are replaced (line 25), is well formed
HtmlInputs ==
    {s \in SeqsUpTo(HtmlUnits, MaxHtmlLen) :
        WellFormedMarkup(ProtectMath(s, <<>>, <<>>).html, FALSE)}

HtmlInit ==
    /\ html_pc = "call"
    /\ html_input \in HtmlInputs
    /\ html_output = <<>>

HtmlIdle ==
    /\ html_pc = "idle"
    /\ html_input = <<>>
    /\ html_output = <<>>

\* lines 17-43: one call of clean_html
CleanHtml ==
    /\ html_pc = "call"
    /\ html_output' = clean_html(html_input)
    /\ html_pc' = "return"
    /\ UNCHANGED html_input

\* the math spans of a raw text, in order: the matches of math_pattern
MathSpans(s) == ProtectMath(s, <<>>, <<>>).blocks

RECURSIVE ContainsInOrder(_, _)
\* the blocks occur in s as they are, one after the other
ContainsInOrder(s, blocks) ==
    IF blocks = <<>> THEN TRUE
    ELSE LET b == Head(blocks)
             starts == {i \in 1..(Len(s) - Len(b) + 1) :
                           SubSeq(s, i, i + Len(b) - 1) = b}
         IN /\ starts # {}
            /\ LET first == CHOOSE i \in starts : \A k \in starts : i <= k
               IN ContainsInOrder(SubSeq(s, first + Len(b), Len(s)), Tail(blocks))

\* C20: for every raw text, each math span ($...$ or \[...\] on one line)
\* is in the text clean_html returns, as it was and in the same order
C20_MathSpansVerbatim ==
    html_pc = "return" => ContainsInOrder(html_output, MathSpans(html_input))

---------------------------------------------------------------------------
(* The fields of a returned result       src/similarity_calculator.py:66-128 *)

\* the fields of a comparison result
ResultFields ==
    {"paper_a", "paper_b", "method", "threshold", "type_sensitive",
     "fusion_weight", "total_questions_a", "total_questions_b",
     "total_pairs", "deduplicate", "similar_pairs"}

\* C21: every result calculate_similarity returns, the one with no pair for
\* a side without vectors included, has all the fields of a comparison
\* result, holding the arguments of the call, method "fused", the number of
\* questions with a vector on each side, and a pair count equal to the
\* length of the pair list.
C21_ResultHasAllFields ==
    sim_pc = "return" =>
        /\ DOMAIN results = ResultFields
        /\ results.paper_a = PaperAFile
        /\ results.paper_b = PaperBFile
        /\ results.method = "fused"
        /\ results.threshold = threshold
        /\ results.type_sensitive = type_sensitive
        /\ results.fusion_weight = fusion_weight
        /\ results.total_questions_a = Len(WithVector(paper_a))
        /\ results.total_questions_b = Len(WithVector(paper_b))
        /\ results.deduplicate = sim_deduplicate
        /\ results.total_pairs = Len(results.similar_pairs)

---------------------------------------------------------------------------
(* The order of the stages of start_analysis   src/gui_tkinter.py:357-429 *)

\* the stages this run started are the first ones of the six, in order
StartedInOrder ==
    /\ Len(stages) <= 6
    /\ \A k \in 1..Len(stages) :
          stages[k] = <<"clean_a", "vectorize_a", "clean_b", "vectorize_b",
                        "similarity", "write">>[k]

\* one of the six stages of this run raised: it is the last one started
StageRaised == raised /\ stage >= 1 /\ Len(stages) = stage

\* every stage started before the last one ran to its end, and so did the
\* last one unless it raised: after a raise no stage starts
NoStageAfterRaise ==
    /\ stage = 0 => stages = <<>>
    /\ stage >= 1 => Len(stages) \in {stage - 1, stage}
    /\ (stage >= 1 /\ Len(stages) = stage) => raised

\* the run was started with an empty field or with an input file that does
\* not exist: it has ended, made no temporary directory and ran no stage
InvalidFieldsRunNothing ==
    (runs >= 1 /\ ~FieldsValid(paper_a_entry, paper_b_entry, output_entry,
                               existing_files)) =>
        /\ run_pc = "done"
        /\ temp_dir = None
        /\ cleanup = "none"
        /\ stages = <<>>
        /\ output_written = "no"

\* the handler of the exception has set the progress value to 0
ProgressReset ==
    (StageRaised /\ run_pc \in {"finally", "done"}) => progress = 0

\* C22 as stated: the stages run in the order clean A, vectorize A, clean B,
\* vectorize B, similarity, write; the run touches the output file only
\* after the five earlier stages ran to their end; when a stage raises, no
\* later stage runs, the run has written no output file and the progress
\* value is set to 0; with an empty field or a missing input file no
\* temporary directory is made and no stage runs.
C22_StagesInOrder ==
    /\ StartedInOrder
    /\ NoStageAfterRaise
    /\ output_written # "no" => Len(stages) = 6
    /\ StageRaised => output_written = "no"
    /\ ProgressReset
    /\ InvalidFieldsRunNothing

\* C22 as amended: as above, but when the stage that raises is the writing
\* itself, after the output file was opened, the run leaves that file
\* truncated or partly written; the run leaves no output file touched when
\* one of the five earlier stages raises, and a complete one only when all
\* six stages ran to their end.
C22_StagesInOrderPartialOutput ==
    /\ StartedInOrder
    /\ NoStageAfterRaise
    /\ output_written # "no" => Len(stages) = 6
    /\ output_written = "complete" <=> stage = 7
    /\ StageRaised => output_written \in {"no", "partial"}
    /\ (StageRaised /\ stage < 6) => output_written = "no"
    /\ output_written = "partial" => (StageRaised /\ stage = 6)
    /\ ProgressReset
    /\ InvalidFieldsRunNothing

\* the second run has ended after its fourth stage raised: the four stages
\* were started, the progress value is 0 and the output file is untouched
C22_Witness ==
    /\ run_pc = "done"
    /\ runs = 2
    /\ raised
    /\ stages = <<"clean_a", "vectorize_a", "clean_b", "vectorize_b">>
    /\ stage = 4
    /\ progress = 0
    /\ output_written = "no"
    /\ temp_dir # None

---------------------------------------------------------------------------
(* Specifications: one per operation, the other machines idle *)

\* SPECS-BEGIN
InitSegment == SegInit /\ FpIdle /\ CleanIdle /\ VecIdle /\ SimIdle /\ SwapIdle /\ FusedIdle /\ RunIdle /\ PipeIdle /\ HtmlIdle
NextSegment == SegmentText /\ UNCHANGED <<fpVars, cleanVars, vecVars, simVars, swapVars, fusedVars, runVars, pipeVars, htmlVars>>
SpecSegment == InitSegment /\ [][NextSegment]_vars

InitFingerprint == FpInit /\ SegIdle /\ CleanIdle /\ VecIdle /\ SimIdle /\ SwapIdle /\ FusedIdle /\ RunIdle /\ PipeIdle /\ HtmlIdle
NextFingerprint == Fingerprint /\ UNCHANGED <<segVars, cleanVars, vecVars, simVars, swapVars, fusedVars, runVars, pipeVars, htmlVars>>
SpecFingerprint == InitFingerprint /\ [][NextFingerprint]_vars

InitClean == CleanInit /\ SegIdle /\ FpIdle /\ VecIdle /\ SimIdle /\ SwapIdle /\ FusedIdle /\ RunIdle /\ PipeIdle /\ HtmlIdle
NextClean ==
    \/ CleanBegin /\ UNCHANGED <<segVars, fpVars, vecVars, simVars, swapVars, fusedVars, runVars, pipeVars, htmlVars>>
    \/ CleanSkip /\ UNCHANGED <<segVars, fpVars, vecVars, simVars, swapVars, fusedVars, runVars, pipeVars, htmlVars>>
    \/ CleanKeep /\ UNCHANGED <<segVars, fpVars, vecVars, simVars, swapVars, fusedVars, runVars, pipeVars, htmlVars>>
    \/ CleanSave /\ UNCHANGED <<segVars, fpVars, vecVars, simVars, swapVars, fusedVars, runVars, pipeVars, htmlVars>>
SpecClean == InitClean /\ [][NextClean]_vars

InitVectorize == VecInit /\ SegIdle /\ FpIdle /\ CleanIdle /\ SimIdle /\ SwapIdle /\ FusedIdle /\ RunIdle /\ PipeIdle /\ HtmlIdle
NextVectorize ==
    \/ VecBegin /\ UNCHANGED <<segVars, fpVars, cleanVars, simVars, swapVars, fusedVars, runVars, pipeVars, htmlVars>>
    \/ VecBeginRaises /\ UNCHANGED <<segVars, fpVars, cleanVars, simVars, swapVars, fusedVars, runVars, pipeVars, htmlVars>>
    \/ VecQuestionSegments /\ UNCHANGED <<segVars, fpVars, cleanVars, simVars, swapVars, fusedVars, runVars, pipeVars, htmlVars>>
    \/ VecQuestionFullText /\ UNCHANGED <<segVars, fpVars, cleanVars, simVars, swapVars, fusedVars, runVars, pipeVars, htmlVars>>
    \/ VecQuestionRaises /\ UNCHANGED <<segVars, fpVars, cleanVars, simVars, swapVars, fusedVars, runVars, pipeVars, htmlVars>>
    \/ VecSave /\ UNCHANGED <<segVars, fpVars, cleanVars, simVars, swapVars, fusedVars, runVars, pipeVars, htmlVars>>
SpecVectorize == InitVectorize /\ [][NextVectorize]_vars

InitSimilarity == SimInit /\ SegIdle /\ FpIdle /\ CleanIdle /\ VecIdle /\ SwapIdle /\ FusedIdle /\ RunIdle /\ PipeIdle /\ HtmlIdle
NextSimilarity ==
    \/ CalculateSimilarityEmpty /\ UNCHANGED <<segVars, fpVars, cleanVars, vecVars, swapVars, fusedVars, runVars, pipeVars, htmlVars>>
    \/ CalculateSimilarity /\ UNCHANGED <<segVars, fpVars, cleanVars, vecVars, swapVars, fusedVars, runVars, pipeVars, htmlVars>>
SpecSimilarity == InitSimilarity /\ [][NextSimilarity]_vars

InitSwap == SwapInit /\ SegIdle /\ FpIdle /\ CleanIdle /\ VecIdle /\ FusedIdle /\ RunIdle /\ PipeIdle /\ HtmlIdle
NextSwap ==
    \/ CalculateSimilarityEmpty /\ UNCHANGED <<segVars, fpVars, cleanVars, vecVars, swapVars, fusedVars, runVars, pipeVars, htmlVars>>
    \/ CalculateSimilarity /\ UNCHANGED <<segVars, fpVars, cleanVars, vecVars, swapVars, fusedVars, runVars, pipeVars, htmlVars>>
    \/ CalculateSimilaritySwapped /\ UNCHANGED <<segVars, fpVars, cleanVars, vecVars, fusedVars, runVars, pipeVars, htmlVars>>
SpecSwap == InitSwap /\ [][NextSwap]_vars

\* one call of calculate_similarity or one call of fused_similarity
InitScores == ((SimInit /\ FusedIdle) \/ (SimIdle /\ FusedInit)) /\ SegIdle /\ FpIdle /\ CleanIdle /\ VecIdle /\ SwapIdle /\ RunIdle /\ PipeIdle /\ HtmlIdle
NextScores ==
    \/ CalculateSimilarityEmpty /\ UNCHANGED <<segVars, fpVars, cleanVars, vecVars, swapVars, fusedVars, runVars, pipeVars, htmlVars>>
    \/ CalculateSimilarity /\ UNCHANGED <<segVars, fpVars, cleanVars, vecVars, swapVars, fusedVars, runVars, pipeVars, htmlVars>>
    \/ FusedSimilarity /\ UNCHANGED <<segVars, fpVars, cleanVars, vecVars, simVars, swapVars, runVars, pipeVars, htmlVars>>
SpecScores == InitScores /\ [][NextScores]_vars

InitRun == RunInit /\ SegIdle /\ FpIdle /\ CleanIdle /\ VecIdle /\ SimIdle /\ SwapIdle /\ FusedIdle /\ PipeIdle /\ HtmlIdle
NextRun ==
    \/ StartAnalysis /\ UNCHANGED <<segVars, fpVars, cleanVars, vecVars, simVars, swapVars, fusedVars, pipeVars, htmlVars>>
    \/ MakeTempDir /\ UNCHANGED <<segVars, fpVars, cleanVars, vecVars, simVars, swapVars, fusedVars, pipeVars, htmlVars>>
    \/ MakeTempDirRaises /\ UNCHANGED <<segVars, fpVars, cleanVars, vecVars, simVars, swapVars, fusedVars, pipeVars, htmlVars>>
    \/ StageRuns /\ UNCHANGED <<segVars, fpVars, cleanVars, vecVars, simVars, swapVars, fusedVars, pipeVars, htmlVars>>
    \/ StageRaises /\ UNCHANGED <<segVars, fpVars, cleanVars, vecVars, simVars, swapVars, fusedVars, pipeVars, htmlVars>>
    \/ WriteRaises /\ UNCHANGED <<segVars, fpVars, cleanVars, vecVars, simVars, swapVars, fusedVars, pipeVars, htmlVars>>
    \/ DisplayResults /\ UNCHANGED <<segVars, fpVars, cleanVars, vecVars, simVars, swapVars, fusedVars, pipeVars, htmlVars>>
    \/ DisplayResultsRaises /\ UNCHANGED <<segVars, fpVars, cleanVars, vecVars, simVars, swapVars, fusedVars, pipeVars, htmlVars>>
    \/ HandleException /\ UNCHANGED <<segVars, fpVars, cleanVars, vecVars, simVars, swapVars, fusedVars, pipeVars, htmlVars>>
    \/ CleanTempDir /\ UNCHANGED <<segVars, fpVars, cleanVars, vecVars, simVars, swapVars, fusedVars, pipeVars, htmlVars>>
    \/ CleanTempDirRaises /\ UNCHANGED <<segVars, fpVars, cleanVars, vecVars, simVars, swapVars, fusedVars, pipeVars, htmlVars>>
SpecRun == InitRun /\ [][NextRun]_vars

InitPipeline == PipeInit /\ SegIdle /\ FpIdle /\ CleanIdle /\ VecIdle /\ SimIdle /\ SwapIdle /\ FusedIdle /\ RunIdle /\ HtmlIdle
NextPipeline ==
    \/ CleanStageA /\ UNCHANGED <<segVars, fpVars, cleanVars, vecVars, simVars, swapVars, fusedVars, runVars, htmlVars>>
    \/ VectorizeStageA /\ UNCHANGED <<segVars, fpVars, cleanVars, vecVars, simVars, swapVars, fusedVars, runVars, htmlVars>>
    \/ CleanStageB /\ UNCHANGED <<segVars, fpVars, cleanVars, vecVars, simVars, swapVars, fusedVars, runVars, htmlVars>>
    \/ VectorizeStageB /\ UNCHANGED <<segVars, fpVars, cleanVars, vecVars, simVars, swapVars, fusedVars, runVars, htmlVars>>
    \/ SimilarityStage /\ UNCHANGED <<segVars, fpVars, cleanVars, vecVars, simVars, swapVars, fusedVars, runVars, htmlVars>>
SpecPipeline == InitPipeline /\ [][NextPipeline]_vars

InitHtml == HtmlInit /\ SegIdle /\ FpIdle /\ CleanIdle /\ VecIdle /\ SimIdle /\ SwapIdle /\ FusedIdle /\ RunIdle /\ PipeIdle
NextHtml ==
    \/ CleanHtml /\ UNCHANGED <<segVars, fpVars, cleanVars, vecVars, simVars, swapVars, fusedVars, runVars, pipeVars>>
SpecHtml == InitHtml /\ [][NextHtml]_vars
\* SPECS-END

===========================================================================
